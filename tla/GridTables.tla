----------------------------- MODULE GridTables -----------------------------
(***************************************************************************)
(* The DuckDB tables through which acquisition, detection and prediction    *)
(* meet, for one region.  A connection that writes excludes the others, so  *)
(* what one connection does is a step unless it fails halfway.              *)
(***************************************************************************)
EXTENDS Readings

CONSTANT NoTable  \* the table was never created

VARIABLES
  demand,      \* hourly_grid_data: demand_mw by hour
  renewables,  \* hourly_renewable_generation: solar and wind by hour, or NoTable
  netLoad,     \* whether the view target_net_load exists
  weather,     \* hourly_region_weather: radiation by hour and weather_data_type
  forecasts    \* target_forecasts

tables == <<demand, renewables, netLoad, weather, forecasts>>

Generation == {"solar_generation_mw", "wind_generation_mw", "total_renewable_generation_mw"}
DataTypes  == {"historical", "forecast"}

Covered == IF renewables = NoTable THEN {} ELSE DOMAIN renewables

(* process_renewable_records: a total only where both are measured.          *)
Generated(target, h) ==
  CASE target = "solar_generation_mw" -> renewables[h].solar
    [] target = "wind_generation_mw"  -> renewables[h].wind
    [] OTHER                          -> Plus(renewables[h].solar, renewables[h].wind)

(* create_net_load_view: complete cases of both tables only.                 *)
NetLoadHours == {h \in DOMAIN demand \cap Covered :
                   NaN \notin {demand[h], Generated("total", h)}}

(* _load_target: the rows of a target, and whether its table can be read.    *)
Readable(target) ==
  CASE target = "demand_mw"  -> TRUE
    [] target \in Generation -> renewables # NoTable
    [] OTHER                 -> netLoad

Observed(target) ==
  CASE target = "demand_mw"  -> demand
    [] target \in Generation -> [h \in Covered |-> Generated(target, h)]
    [] OTHER -> [h \in NetLoadHours |-> demand[h] - Generated("total", h)]

(* read_regions returns an hour once per data type; of two rows the reader   *)
(* keeps the last, in an order the query leaves open.                        *)
RegionWeather(prefer) ==
  [h \in {key[1] : key \in DOMAIN weather} |->
     [radiation |-> IF <<h, prefer>> \in DOMAIN weather THEN weather[<<h, prefer>>]
                    ELSE weather[CHOOSE key \in DOMAIN weather : key[1] = h],
      indicator |-> NaN]]
=============================================================================
