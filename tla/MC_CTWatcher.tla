---------------------------- MODULE MC_CTWatcher ----------------------------
(* Instances of CTWatcher for TLC: two CT logs, and the spellings of their *)
(* URLs the log list uses.                                                 *)
EXTENDS CTWatcher

CONSTANTS h1, h2

MCHosts == {h1, h2}

(* The log list as Google publishes it: "https://<log>/".                  *)
Canonical(h) == [host |-> h, scheme |-> "https", slashes |-> 1]

(* First a list with one log, later one with both logs, the first spelled  *)
(* with "http://" and without a slash and the second without a scheme.     *)
MCLogLists ==
    { <<Canonical(h1)>>,
      <<[host |-> h1, scheme |-> "http", slashes |-> 0],
        [host |-> h2, scheme |-> "none", slashes |-> 1]>> }

(* A list that spells its one log "https://<log>//" on every sweep.      *)
MCDoubleSlashLists ==
    { <<[host |-> h1, scheme |-> "https", slashes |-> 2]>> }

(* "<log> 1": the configured override for the first log.                   *)
MCStartIndexOverride == {[sub |-> h1, hasIndex |-> TRUE, idx |-> 1]}

(* "<log>": an element without an index.                                   *)
MCStartIndexBare == {[sub |-> h1, hasIndex |-> FALSE, idx |-> 0]}

=============================================================================
