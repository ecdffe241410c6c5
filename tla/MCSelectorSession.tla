------------------------- MODULE MCSelectorSession -------------------------
(***************************************************************************)
(* Selector and TrafficStats in one run.  They meet only in `now`, and all *)
(* their interleavings together are out of reach, so a behaviour has one   *)
(* of them in detail: either picks travel through Selector while nothing   *)
(* is counted, or bytes are counted in TrafficStats and each switch is a   *)
(* pick that has been carried through at once.                             *)
(***************************************************************************)
EXTENDS Selector, TrafficStats

VARIABLE part

sessionVars == <<selectorVars, vars, part>>

InitSession == InitSelector /\ Init /\ part \in {"selector", "traffic"}

CarriedThrough ==
  IF now' = now THEN UNCHANGED <<core, selected, picked>>
  ELSE core' = now' /\ selected' = now' /\ picked' = now'

NextSession ==
  \/ /\ part = "selector" /\ NextSelector
     /\ UNCHANGED <<part, phase, counter, rx, counted, sweep, todo, diff, saveVars, clearVars,
                    sent, switches, carried, fresh>>
  \/ /\ part = "traffic" /\ Next /\ CarriedThrough
     /\ UNCHANGED <<part, pc, arg, events, callbacks, picks, odd>>

SessionSpec == InitSession /\ [][NextSession]_sessionVars
=============================================================================
