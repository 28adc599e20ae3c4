------------------------------- MODULE Display -------------------------------
(***************************************************************************)
(* The SurfaceFlinger compatibility layer (compat/surface_flinger): a      *)
(* client with or without EGL, its surfaces, and the transactions in which *)
(* their places (position, size, layer, alpha) reach the compositor.  What *)
(* Android and EGL are asked for may fail.                                 *)
(***************************************************************************)
EXTENDS Clients

CONSTANTS Surface, Place, Home   \* SfSurfaces, where they can be, and one of these

ASSUME DisplayAssumption == Home \in Place /\ NULL \notin Surface

VARIABLES
  client,        \* the parts the SfClient has; none before it is made
  surfaces,      \* the parts each SfSurface has
  handed_out,    \* what the program got a pointer to: "client", surfaces
  making,        \* the surface sf_surface_create is at work on, or NULL
  transactions,  \* Android's count of open transactions
  begun,         \* how many the program has begun and not ended
  wanted, shown, \* each surface's place: as set, and as the compositor has it
  current,       \* the surface EGL draws to, or NULL
  blanked        \* the displays that are

displayVars == <<client, surfaces, handed_out, making, transactions, begun, wanted, shown, current, blanked>>

Part      == {"composer", "egl", "egl_display", "egl_config", "egl_context"}
SurfacePart == {"control", "surface", "egl_surface"}

DisplayTypeOK ==
  /\ client \subseteq Part /\ surfaces \in [Surface -> SUBSET SurfacePart]
  /\ handed_out \subseteq Surface \cup {"client"} /\ making \in Surface \cup {NULL}
  /\ transactions \in 0..2 /\ begun \in 0..1
  /\ wanted \in [Surface -> Place] /\ shown \in [Surface -> Place]
  /\ current \in Surface \cup {NULL} /\ blanked \subseteq {0, 1}

DisplayInit ==
  /\ client = {} /\ surfaces = [s \in Surface |-> {}] /\ handed_out = {}
  /\ making = NULL /\ transactions = 0 /\ begun = 0
  /\ wanted = [s \in Surface |-> Home] /\ shown = wanted
  /\ current = NULL /\ blanked = {}

placeVars == <<transactions, begun, wanted, shown>>

-----------------------------------------------------------------------------
(* The client.                                                             *)

\* The parts of a client that is made, in their order; nobody looks whether the
\* context could be.
ClientParts == <<"composer", "egl_display", "egl_initialized", "egl_config">>

\* How far making one got, of these, decides: up to the first failure.  A
\* client that does not want EGL needs the first.
Made(n) == {ClientParts[i] : i \in 1..n} \ {"egl_initialized"}

\* What fails is deleted, and the program gets NULL.
sf_client_create_full(egl_support) ==
  \E n \in 0..4, context \in {{}, {"egl_context"}} :
    /\ client = {}
    /\ IF n < (IF egl_support THEN 4 ELSE 1) THEN UNCHANGED <<client, handed_out>>
       ELSE /\ client' = IF egl_support THEN Made(n) \cup {"egl"} \cup context ELSE {"composer"}
            /\ handed_out' = {"client"}
    /\ UNCHANGED <<surfaces, making, placeVars, current, blanked>>

HasClient == client # {} /\ making = NULL

-----------------------------------------------------------------------------
(* Transactions.  Android counts them, and shows what was set when the last  *)
(* is closed.                                                                *)

Open  == transactions' = transactions + 1
Close == /\ transactions' = transactions - 1
         /\ shown' = IF transactions = 1 THEN wanted ELSE shown

sf_client_begin_transaction ==
  /\ HasClient /\ begun = 0 /\ begun' = 1 /\ Open
  /\ UNCHANGED <<client, surfaces, handed_out, making, wanted, shown, current, blanked>>

sf_client_end_transaction ==
  /\ HasClient /\ begun = 1 /\ begun' = 0 /\ Close
  /\ UNCHANGED <<client, surfaces, handed_out, making, wanted, current, blanked>>

\* The program moves, sizes, layers and fades within its transactions.
SetPlace(s, p) ==
  /\ HasClient /\ begun = 1 /\ s \in handed_out
  /\ wanted' = [wanted EXCEPT ![s] = p]
  /\ UNCHANGED <<client, surfaces, handed_out, making, transactions, begun, shown, current, blanked>>

-----------------------------------------------------------------------------
(* Surfaces.                                                               *)

\* A surface without control or without surface is deleted again.
MakeSurface(s) ==
  /\ HasClient /\ surfaces[s] = {}
  /\ surfaces' = [surfaces EXCEPT ![s] = {"control", "surface"}]
  /\ making' = s /\ Open
  /\ UNCHANGED <<client, handed_out, begun, wanted, shown, current, blanked>>

\* Slip: the transaction stays open.
PlaceSurfaceOpen(p) ==
  /\ making # NULL /\ wanted[making] # p
  /\ wanted' = [wanted EXCEPT ![making] = p]
  /\ handed_out' = handed_out \cup {making} /\ making' = NULL
  /\ UNCHANGED <<client, surfaces, transactions, begun, shown, current, blanked>>

\* Placed in a transaction of its own; an EGL surface is made if the program
\* wants one and the client has EGL, and nobody looks whether it could be.
PlaceSurface(p) ==
  /\ making # NULL
  /\ wanted' = [wanted EXCEPT ![making] = p]
  /\ transactions' = transactions - 1
  /\ shown' = IF transactions = 1 THEN wanted' ELSE shown
  /\ \E egl \in {{}, {"egl_surface"}} :
       /\ egl = {} \/ "egl" \in client
       /\ surfaces' = [surfaces EXCEPT ![making] = @ \cup egl]
  /\ handed_out' = handed_out \cup {making} /\ making' = NULL
  /\ UNCHANGED <<client, begun, current, blanked>>

\* EGL refuses what was not made.
sf_surface_make_current(s) ==
  /\ HasClient /\ s \in handed_out /\ "egl" \in client
  /\ current' = IF "egl_surface" \in surfaces[s] /\ "egl_context" \in client THEN s ELSE current
  /\ UNCHANGED <<client, surfaces, handed_out, making, placeVars, blanked>>

\* Only the displays 0 and 1 are known.
sf_blank(d)   == d \in {0, 1} /\ blanked' = blanked \cup {d}
                 /\ UNCHANGED <<client, surfaces, handed_out, making, placeVars, current>>
sf_unblank(d) == d \in {0, 1} /\ blanked' = blanked \ {d}
                 /\ UNCHANGED <<client, surfaces, handed_out, making, placeVars, current>>

-----------------------------------------------------------------------------

DisplayNext ==
  \/ \E egl_support \in BOOLEAN : sf_client_create_full(egl_support)
  \/ sf_client_begin_transaction \/ sf_client_end_transaction
  \/ \E s \in Surface : MakeSurface(s) \/ sf_surface_make_current(s)
  \/ \E p \in Place : PlaceSurface(p) \/ \E s \in Surface : SetPlace(s, p)
  \/ \E d \in {0, 1} : sf_blank(d) \/ sf_unblank(d)

DisplaySpec == DisplayInit /\ [][DisplayNext]_displayVars

-----------------------------------------------------------------------------
(* Properties.                                                             *)

\* Outside of the program's transactions the compositor has every surface where
\* it was put last, new ones included: the transactions of sf_surface_create
\* and of the program nest, and none is left open.
PlacesShown == begun = 0 /\ making = NULL => shown = wanted
=============================================================================
