------------------------------ MODULE MCServices ------------------------------
(***************************************************************************)
(* The four compatibility layers.  They share no state, so that each       *)
(* behaviour is one of a program that uses one of them.                    *)
(***************************************************************************)
EXTENDS Camera, Player, InputStack, Display

VARIABLE layer   \* the one in use

CONSTANTS gl, app, binder

\* A client that deals with parameters, and one that deals with the preview.
MCUses == { {"set", "get", "lock", "unlock", "disconnect"}, Op \ {"set", "get"} }

servicesVars == <<layer, cameraVars, playerVars, inputVars, displayVars>>

ServicesInit ==
  /\ layer \in {"camera", "media", "input", "surface_flinger"}
  /\ CameraInit /\ PlayerInit /\ InputInit /\ DisplayInit
  /\ layer # "camera" => "get" \in use

OfCamera  == layer = "camera" /\ CameraNext /\ UNCHANGED <<layer, playerVars, inputVars, displayVars>>
OfPlayer  == layer = "media"  /\ PlayerNext /\ UNCHANGED <<layer, cameraVars, inputVars, displayVars>>
OfInput   == layer = "input"  /\ InputNext  /\ UNCHANGED <<layer, cameraVars, playerVars, displayVars>>
OfDisplay == layer = "surface_flinger" /\ DisplayNext /\ UNCHANGED <<layer, cameraVars, playerVars, inputVars>>

ServicesNext == OfCamera \/ OfPlayer \/ OfInput \/ OfDisplay

ServicesSpec == ServicesInit /\ [][ServicesNext]_servicesVars /\ CameraFairness /\ InputFairness

ServicesTypeOK == CameraTypeOK /\ PlayerTypeOK /\ InputTypeOK /\ DisplayTypeOK
=============================================================================
