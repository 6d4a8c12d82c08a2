------------------------------- MODULE KeysPage -------------------------------
(***************************************************************************)
(* The page of virtual keys (ui/src/pages/Keys.tsx): an operator creates,  *)
(* switches on and off, and revokes keys; the table below is the server's. *)
(* Of a key its state matters and whether it carries restrictions.         *)
(***************************************************************************)
EXTENDS AdminPage

CONSTANT KeyIds

VARIABLES
    keyDb,       \* virtual_keys, as the admin handlers keep it
    keyList,     \* keys: the rows of the last load, changed by toggles
    keyTenants,  \* whether the tenants of the form have been loaded
    keyLoading,  \* loading
    keyDrawer,   \* modalOpen: the form that creates a key
    keyReveal,   \* createdKey: the key whose secret is on the screen
    keyDialog,   \* deleting: the key the operator is asked about
    keyBusy,     \* busy
    keyTwice     \* history: a key was created while another was on its way

keyUI == <<keyList, keyTenants, keyLoading, keyDrawer, keyReveal, keyDialog, keyBusy>>
keyVars == <<keyDb, keyUI, keyTwice>>

KeyRow == [id : KeyIds, enabled : BOOLEAN, scoped : BOOLEAN]
KeyLoads == {"list", "reload"}
IdsOf(rows) == {k.id : k \in rows}

KeysMounted(drawer) ==
    /\ keyList' = {} /\ keyTenants' = FALSE /\ keyLoading' = TRUE
    /\ keyDrawer' = drawer
    /\ keyReveal' = None /\ keyDialog' = None /\ keyBusy' = FALSE

KeysInit ==
    /\ keyDb \in {{}} \cup {{[id |-> i, enabled |-> TRUE, scoped |-> TRUE]} : i \in KeyIds}
    /\ keyList = {} /\ keyTenants = FALSE /\ keyLoading = TRUE
    /\ keyDrawer \in BOOLEAN      \* the link ?create=1 opens it
    /\ keyReveal = None /\ keyDialog = None /\ keyBusy = FALSE
    /\ keyTwice = FALSE
    /\ PageInit({Ask({}, "list", None)})
-----------------------------------------------------------------------------
(* What the server does with the page's requests.                          *)

ServeKeys(r) ==
    /\ r.kind \in KeyLoads
    /\ Answer(r, "ok", r.row, keyDb)
    /\ UNCHANGED keyDb

ServeCreateKey(r) ==
    /\ r.kind = "create"
    /\ \E i \in KeyIds \ IdsOf(keyDb) :
         /\ keyDb' = keyDb \cup {[id |-> i, enabled |-> TRUE, scoped |-> TRUE]}
         /\ Answer(r, "ok", i, {})

(* Mutant of ServeToggle: the row is not written over. *)
ServeToggleAdds(r) ==
    /\ r.kind = "toggle"
    /\ keyDb' = keyDb \cup {[id |-> r.row.id, enabled |-> ~r.row.enabled, scoped |-> FALSE]}
    /\ Answer(r, "ok", r.row, {})

(* PATCH writes every field of the row from the request, which holds       *)
(* nothing but enabled: the restrictions of the key are gone.              *)
ServeToggle(r) ==
    /\ r.kind = "toggle"
    /\ keyDb' = {IF k.id = r.row.id
                 THEN [k EXCEPT !.enabled = ~r.row.enabled, !.scoped = FALSE]
                 ELSE k : k \in keyDb}
    /\ Answer(r, "ok", r.row, {})

(* A key is revoked by switching it off; one that is off is not found.     *)
ServeRevoke(r) ==
    /\ r.kind = "revoke"
    /\ keyDb' = {IF k.id = r.row.id THEN [k EXCEPT !.enabled = FALSE] ELSE k : k \in keyDb}
    /\ Answer(r, IF keyDb' = keyDb THEN "failed" ELSE "ok", r.row, {})

KeysServer ==
    \E r \in flight :
      /\ r.st = "sent"
      /\ ServeKeys(r) \/ ServeCreateKey(r) \/ ServeToggle(r) \/ ServeRevoke(r)
      /\ UNCHANGED <<keyUI, keyTwice>>
-----------------------------------------------------------------------------
(* What the operator does.                                                 *)

(* The filter of the page: every key, or those of one status.              *)
KeyRows(filter) == {k \in keyList : filter \in {"", IF k.enabled THEN "enabled" ELSE "disabled"}}

(* Drawer, secret and dialog each cover the page while they are open.      *)
KeysUncovered == ~keyDrawer /\ keyReveal = None /\ keyDialog = None

OpenDrawer ==
    /\ KeysUncovered
    /\ keyDrawer' = TRUE
    /\ UNCHANGED <<flight, raced, keyList, keyTenants, keyLoading, keyReveal, keyDialog, keyBusy, keyTwice>>

CloseDrawer ==
    /\ keyDrawer /\ keyReveal = None
    /\ keyDrawer' = FALSE
    /\ UNCHANGED <<flight, raced, keyList, keyTenants, keyLoading, keyReveal, keyDialog, keyBusy, keyTwice>>

(* A key needs a tenant: the form takes the first one once they are loaded. *)
(* It stays open, and its button enabled, until the answer is there.       *)
SubmitKey ==
    /\ keyDrawer /\ keyReveal = None
    /\ keyTenants
    /\ keyTwice' = (keyTwice \/ \E r \in flight : r.kind = "create" /\ r.mine)
    /\ Send({}, "create", None)
    /\ UNCHANGED keyUI

DoneWithSecret ==
    /\ keyReveal # None
    /\ keyReveal' = None
    /\ UNCHANGED <<flight, raced, keyList, keyTenants, keyLoading, keyDrawer, keyDialog, keyBusy, keyTwice>>

ToggleKey ==
    /\ KeysUncovered
    /\ \E filter \in {"", "enabled", "disabled"} : \E k \in KeyRows(filter) : Send({}, "toggle", k)
    /\ UNCHANGED <<keyUI, keyTwice>>

AskRevoke ==
    /\ KeysUncovered
    /\ \E filter \in {"", "enabled", "disabled"} : keyDialog' \in KeyRows(filter)
    /\ UNCHANGED <<flight, raced, keyList, keyTenants, keyLoading, keyDrawer, keyReveal, keyBusy, keyTwice>>

(* Cancel is disabled while busy, the backdrop and Escape are not.         *)
CancelRevoke ==
    /\ keyDialog # None
    /\ keyDialog' = None
    /\ UNCHANGED <<flight, raced, keyList, keyTenants, keyLoading, keyDrawer, keyReveal, keyBusy, keyTwice>>

ConfirmRevoke ==
    /\ keyDialog # None /\ keyReveal = None /\ ~keyBusy
    /\ keyBusy' = TRUE
    /\ Send({}, "revoke", keyDialog)
    /\ UNCHANGED <<keyList, keyTenants, keyLoading, keyDrawer, keyReveal, keyDialog, keyTwice>>

(* The operator leaves the page and comes back.                            *)
RevisitKeys ==
    /\ KeysMounted(FALSE)
    /\ LET left == Orphan(KeyLoads) IN flight' = left \cup {Ask(left, "list", None)}
    /\ raced' = (raced \/ flight # {})
    /\ UNCHANGED keyTwice

KeysOperator ==
    /\ Click
    /\ \/ OpenDrawer \/ CloseDrawer \/ SubmitKey \/ DoneWithSecret
       \/ ToggleKey \/ AskRevoke \/ CancelRevoke \/ ConfirmRevoke \/ RevisitKeys
    /\ UNCHANGED <<faults, keyDb>>
-----------------------------------------------------------------------------
(* What the handlers do when their answers arrive.                         *)

KeysLoaded(r) ==
    /\ r.kind \in KeyLoads
    /\ keyList' = IF r.st = "ok" THEN r.rows ELSE keyList
    /\ keyTenants' = (keyTenants \/ r.st = "ok")
    /\ keyLoading' = FALSE
    /\ keyBusy' = (keyBusy /\ r.kind # "reload")    \* doDelete awaits its load
    /\ Finish(r)
    /\ UNCHANGED <<keyDrawer, keyReveal, keyDialog>>

KeyCreated(r) ==
    /\ r.kind = "create"
    /\ IF r.st = "ok"
       THEN /\ keyReveal' = r.row
            /\ keyDrawer' = FALSE
            /\ keyLoading' = TRUE
            /\ Send({r}, "list", None)
       ELSE Finish(r) /\ UNCHANGED <<keyReveal, keyDrawer, keyLoading>>
    /\ UNCHANGED <<keyList, keyTenants, keyDialog, keyBusy>>

KeyToggled(r) ==
    /\ r.kind = "toggle"
    /\ keyList' = IF r.st = "ok"
                  THEN {IF k.id = r.row.id THEN [k EXCEPT !.enabled = ~r.row.enabled] ELSE k : k \in keyList}
                  ELSE keyList
    /\ Finish(r)
    /\ UNCHANGED <<keyTenants, keyLoading, keyDrawer, keyReveal, keyDialog, keyBusy>>

(* Mutant of KeyRevoked: a failure leaves it busy. *)
KeyRevokedBusy(r) ==
    /\ r.kind = "revoke"
    /\ IF r.st = "ok"
       THEN keyDialog' = None /\ keyLoading' = TRUE /\ Send({r}, "reload", None)
       ELSE Finish(r) /\ UNCHANGED <<keyDialog, keyLoading>>
    /\ UNCHANGED <<keyList, keyTenants, keyDrawer, keyReveal, keyBusy>>

KeyRevoked(r) ==
    /\ r.kind = "revoke"
    /\ IF r.st = "ok"
       THEN /\ keyDialog' = None
            /\ keyLoading' = TRUE
            /\ Send({r}, "reload", None)
            /\ UNCHANGED keyBusy
       ELSE keyBusy' = FALSE /\ Finish(r) /\ UNCHANGED <<keyDialog, keyLoading>>
    /\ UNCHANGED <<keyList, keyTenants, keyDrawer, keyReveal>>

KeysAnswered ==
    /\ \E r \in flight :
         /\ r.st # "sent"
         /\ IF r.mine
            THEN KeysLoaded(r) \/ KeyCreated(r) \/ KeyToggled(r) \/ KeyRevoked(r)
            ELSE Finish(r) /\ UNCHANGED keyUI
    /\ UNCHANGED <<clicks, faults, keyDb, keyTwice>>

KeysNext ==
    \/ KeysServer \/ KeysOperator \/ KeysAnswered
    \/ \E r \in flight : Lose(r) /\ UNCHANGED keyVars

KeysSpec == KeysInit /\ [][KeysNext]_<<pageVars, keyVars>>
-----------------------------------------------------------------------------
OwnKeyRequests(kinds) == {r \in flight : r.mine /\ r.kind \in kinds}

KeysTypeOK ==
    /\ keyDb \subseteq KeyRow /\ keyList \subseteq KeyRow
    /\ Cardinality(IdsOf(keyDb)) = Cardinality(keyDb)
    /\ keyDialog \in KeyRow \cup {None} /\ keyReveal \in KeyIds \cup {None}
    /\ <<keyTenants, keyLoading, keyDrawer>> \in BOOLEAN \X BOOLEAN \X BOOLEAN
    /\ <<keyBusy, keyTwice>> \in BOOLEAN \X BOOLEAN

(* Once nothing is under way, the page shows the keys the server has, each *)
(* switched the way it is there, unless requests overlapped or failed on   *)
(* the way: handlers that patch the list (toggle) and handlers that load   *)
(* it again (create, revoke) leave it true in every order of legal steps.  *)
(* Of the restrictions it says nothing, as it cannot: a toggle takes them  *)
(* from the server's row, and the row shown keeps them until a load.       *)
KeysListTrue ==
    Quiet => {<<k.id, k.enabled>> : k \in keyList} = {<<k.id, k.enabled>> : k \in keyDb}

(* The flags tell the truth while requests overlap, fail and dialogs are   *)
(* closed over them: the dialog is busy exactly while its own revocation   *)
(* or the load after it is under way, which is at most one, and the page   *)
(* says "Loading keys" only while a load of it is under way.               *)
KeysBusyTrue ==
    /\ keyBusy <=> OwnKeyRequests({"revoke", "reload"}) # {}
    /\ Cardinality(OwnKeyRequests({"revoke", "reload"})) <= 1
    /\ keyLoading => OwnKeyRequests(KeyLoads) # {}

(* "Copy the key now - it will not be shown again": the secret stays on    *)
(* the screen until the operator is done with it or leaves the page: no    *)
(* answer that arrives takes it away.  That the secret of another key      *)
(* takes its place needs two creations at once, which the form, open until *)
(* its answer arrives, does not prevent.                                   *)
SecretStays ==
    [][keyReveal # None /\ keyReveal' # keyReveal =>
         (keyReveal' = None /\ clicks' # clicks) \/ keyTwice]_<<keyReveal, clicks, keyTwice>>
=============================================================================
