------------------------------ MODULE TenantTable ------------------------------
(***************************************************************************)
(* The tenants as the admin handlers of the server keep them, for the      *)
(* pages that show and change them (TenantPage, TenantEditor).  Of a       *)
(* tenant it matters whose data its row holds, and its retention mode,     *)
(* "full" or "none", or "" for the default of the server's configuration.  *)
(***************************************************************************)
EXTENDS AdminPage

CONSTANT Slugs

VARIABLE tenDb      \* the rows; None for a tenant that does not exist

TenantRow == [of : Slugs, keep : {"full", "none", ""}]

\* A tenant that is there is told from one that is not.
ASSUME TableAssumption == None \notin TenantRow

(* Some tenants are there, all of the default retention mode.              *)
TableInit ==
    \E there \in SUBSET Slugs :
      tenDb = [s \in Slugs |-> IF s \in there THEN [of |-> s, keep |-> ""] ELSE None]

Found(slug) == IF tenDb[slug] # None THEN "ok" ELSE "absent"

(* A request names its tenant in row.slug; page and form are filled with   *)
(* the row that their loads find.                                          *)
ServeGet(r) ==
    /\ Answer(r, Found(r.row.slug), r.row,
              IF r.kind \in {"tenant", "refresh", "edit"} THEN {tenDb[r.row.slug]} \ {None} ELSE {})
    /\ UNCHANGED tenDb

(* PUT writes the row over, but keeps the mode if it names none.           *)
ServePut(r) ==
    /\ tenDb' = IF tenDb[r.row.slug] = None THEN tenDb
                ELSE [tenDb EXCEPT ![r.row.slug] =
                        [of |-> r.row.data.of,
                         keep |-> IF r.row.data.keep = "" THEN @.keep ELSE r.row.data.keep]]
    /\ Answer(r, Found(r.row.slug), r.row, {})

ServePost(r) ==
    /\ tenDb' = IF tenDb[r.row.slug] # None THEN tenDb ELSE [tenDb EXCEPT ![r.row.slug] = r.row.data]
    /\ Answer(r, IF tenDb[r.row.slug] = None THEN "ok" ELSE "failed", r.row, {})

(* A compliance pack is applied by writing the row of a new tenant, which  *)
(* is given name, header and dictionaries of the old one, but not its      *)
(* retention mode.                                                         *)
ServeApply(r) ==
    /\ tenDb' = IF tenDb[r.row.slug] = None THEN tenDb ELSE [tenDb EXCEPT ![r.row.slug].keep = ""]
    /\ Answer(r, Found(r.row.slug), r.row, {})

(* The answer to a deletion is 204 with no body, which apiFetch takes for  *)
(* a failure as it parses every body.                                      *)
ServeDelete(r) ==
    /\ tenDb' = [tenDb EXCEPT ![r.row.slug] = None]
    /\ Answer(r, "failed", r.row, {})

TableServer ==
    \E r \in flight :
      /\ r.st = "sent"
      /\ CASE r.kind = "put" -> ServePut(r)
           [] r.kind = "post" -> ServePost(r)
           [] r.kind = "apply" -> ServeApply(r)
           [] r.kind = "remove" -> ServeDelete(r)
           [] OTHER -> ServeGet(r)
=============================================================================
