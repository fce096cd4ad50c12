----------------------------- MODULE CatalogStore ----------------------------
(***************************************************************************)
(* What the CA-owner catalog promises the parsers that read CAOwners: a    *)
(* refresh is begun and later returns, and the map they read changes only  *)
(* when it returns, in one step, to the whole catalog of a body the CCADB  *)
(* URL served, or to nil when the download or the CSV failed.  While a     *)
(* refresh runs, the readers see the map of the previous one.              *)
(***************************************************************************)

CONSTANTS
    Catalogs,   \* the catalogs of the bodies the URL may serve
    Initial,    \* the map CAOwners holds before the first refresh
    Nil         \* Go's nil map

VARIABLES
    owners,     \* the map the parsers read
    refreshing  \* whether a refresh has begun and not returned

storeVars == <<owners, refreshing>>

StoreInit ==
    /\ owners = Initial
    /\ refreshing = FALSE

(* A sweep starts a refresh; the readers still see the old map.           *)
Begin ==
    /\ ~refreshing
    /\ refreshing' = TRUE
    /\ UNCHANGED owners

(* The refresh returns and its result replaces the map at once.           *)
Complete ==
    /\ refreshing
    /\ refreshing' = FALSE
    /\ owners' \in Catalogs \cup {Nil}

StoreNext == Begin \/ Complete

StoreSpec == StoreInit /\ [][StoreNext]_storeVars

=============================================================================
