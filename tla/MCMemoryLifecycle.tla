-------------------------- MODULE MCMemoryLifecycle --------------------------
(***************************************************************************)
(* Instances of MemoryLifecycle for TLC.  The policies shorten the         *)
(* built-in thresholds to a few ticks; what they omit is inherited, as in  *)
(* the code.                                                               *)
(***************************************************************************)
EXTENDS MemoryLifecycle

Quick == [t \in Demotable |-> 1]
Omit  == [idle |-> [t \in Demotable |-> 0], deleteAfter |-> 0, promoteCount |-> 0,
          promoteWindow |-> 0, protectPinned |-> Inherit, protectImportance |-> 0]

Anything(rules) ==
  [tiers |-> {}, sources |-> {}, includePinned |-> TRUE, rules |-> rules]

(* Demotes after a day, deletes after a day in the archive, promotes on    *)
(* the second access within a day.                                         *)
QuickRules ==
  [Omit EXCEPT !.idle = Quick, !.deleteAfter = 1, !.promoteCount = 2, !.promoteWindow = 1]

MCPolicies == <<Anything(QuickRules)>>

(* A policy for the archive that leaves pinned memories out of its scope,  *)
(* one that lifts the pin protection of cold memories and would keep the   *)
(* archive, one for working memories that says nothing of pins, and the    *)
(* built-in defaults for the rest.                                         *)
MCScopedPolicies ==
  <<[tiers |-> {"archive"}, sources |-> {}, includePinned |-> FALSE,
     rules |-> [QuickRules EXCEPT !.protectPinned = FALSE]],
    [tiers |-> {"cold"}, sources |-> {}, includePinned |-> TRUE,
     rules |-> [QuickRules EXCEPT !.protectPinned = FALSE, !.deleteAfter = 0]],
    [tiers |-> {"working"}, sources |-> {}, includePinned |-> TRUE,
     rules |-> QuickRules]>>

(* Demotes by age but keeps the archive for ever, the built-in retention.  *)
MCKeepPolicies == <<Anything([QuickRules EXCEPT !.deleteAfter = 0])>>
=============================================================================
