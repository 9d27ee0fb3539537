------------------------------ MODULE MCPanelSync ------------------------------
(* The instances of PanelSync that TLC explores.                           *)
EXTENDS PanelSync, TLC

CONSTANTS worker, command

Worker == {worker}
Both == {worker, command}
===============================================================================
