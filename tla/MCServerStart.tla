--------------------------- MODULE MCServerStart ---------------------------
(* A small instance of ServerStart for TLC. *)
EXTENDS ServerStart, TLC

\* Two of the four tables, two of the five accounts: one whose role the older
\* check on roles admits, and one whose role it does not.
MCTableOrder == <<"land_parcels", "survey_observations">>
MCAccountOrder == <<"gis_analyst", "admin">>
MCSeedRole == ("gis_analyst" :> "gis_analyst") @@ ("admin" :> "admin")
=============================================================================
