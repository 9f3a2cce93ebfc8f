--------------------------- MODULE MCWeatherProxy ---------------------------
(* weather_proxy with one reader, killed once, and a server that comes and goes. *)
EXTENDS WeatherProxyProps

\* Good weather, then bad enough to close.
MCForecast == <<GOOD, PROHIBITED>>
=============================================================================
