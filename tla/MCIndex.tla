------------------------------ MODULE MCIndex -------------------------------
(* One or two files, two models that may share a name.  A run takes some of the instances *)
(* below; those after MCSetups each show a property violated, and the README says which one. *)
EXTENDS Index, TLC
CONSTANTS p1, p2, t1, t2, m1, m2

Base == [paths |-> {p1}, images |-> {}, mine |-> {p1}, name |-> [m \in Models |-> m],
         app |-> TRUE, handles |-> {}, reopens |-> {}, writes |-> 2, switches |-> 0, crashes |-> 0]

\* An application: handlers write, users change files, the bridge switches models.
Application == [Base EXCEPT !.handles = {t1, Binary}, !.writes = 3, !.switches = 1]
\* A server: sweeps and passes side by side.
Server == [Base EXCEPT !.app = FALSE]
\* The store is wiped when it is opened again.
Reset == [Base EXCEPT !.paths = {p1, p2}, !.mine = {p1, p2}, !.reopens = {"wiped"}, !.crashes = 1]

MCSetups == ("application" :> Application) @@ ("server" :> Server) @@ ("reset" :> Reset)

MCCrash == "crash" :> [Base EXCEPT !.reopens = {"kept"}, !.writes = 1, !.crashes = 1]
MCImage == "image" :> [Base EXCEPT !.images = {p1}]
MCRace == "race" :> [Base EXCEPT !.app = FALSE, !.handles = {t1, t2}]
MCSettings == "settings" :> [Base EXCEPT !.name = [m \in Models |-> "same"], !.writes = 1, !.switches = 1]
MCStaleVector == "stale_vector" :> [Base EXCEPT !.app = FALSE]
=============================================================================
