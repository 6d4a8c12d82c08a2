----------------------------- MODULE TenantEditor -----------------------------
(***************************************************************************)
(* The form that creates and edits a tenant                                *)
(* (ui/src/pages/Tenants/TenantForm.tsx).  One component serves the URLs   *)
(* of a new tenant and of each that is there, and stays mounted when the   *)
(* browser's history goes from one of them to another.                     *)
(***************************************************************************)
EXTENDS TenantTable

VARIABLES
    teSlug,        \* the tenant of the URL; None for a new one
    teForm,        \* form: the slug it shows, whose data it holds (None: typed
                   \* by the operator), and its retention mode
    teLoading,     \* loading
    teSubmitting,  \* submitting
    teOpen,        \* whether the form is on the screen
    teHasty        \* history: the URL changed before the form had settled

teVars == <<teSlug, teForm, teLoading, teSubmitting, teOpen, teHasty>>

Blank == [slug |-> None, of |-> None, keep |-> "full"]

EditorMounted(s) ==
    /\ teSlug' = s
    /\ teForm' = Blank
    /\ teLoading' = (s # None)
    /\ teSubmitting' = FALSE
    /\ teOpen' = TRUE
-----------------------------------------------------------------------------
(* Mutant of GoToForm: the effect does not run again. *)
GoToFormUnloaded ==
    /\ teSlug' \in (Slugs \cup {None}) \ {teSlug}
    /\ teHasty' = (teHasty \/ flight # {} \/ (teSlug' = None /\ teForm # Blank))
    /\ UNCHANGED <<flight, raced, teForm, teLoading, teSubmitting, teOpen>>

(* The history goes to the form of another tenant, or to that of a new one *)
(* which does not load anything: the form keeps what it holds.             *)
GoToForm ==
    /\ \E s \in (Slugs \cup {None}) \ {teSlug} :
         /\ teSlug' = s
         /\ IF s = None THEN UNCHANGED <<flight, raced, teLoading>>
            ELSE Send({}, "edit", [slug |-> s]) /\ teLoading' = TRUE
         /\ teHasty' = (teHasty \/ flight # {} \/ (s = None /\ teForm # Blank))
    /\ UNCHANGED <<teForm, teSubmitting, teOpen>>

FillForm ==
    /\ ~teLoading
    /\ \/ \E k \in {"full", "none"} : teForm' = [teForm EXCEPT !.keep = k]
       \/ /\ teSlug = None
          /\ \E s \in Slugs : teForm' = [teForm EXCEPT !.slug = s]
    /\ UNCHANGED <<flight, raced, teSlug, teLoading, teSubmitting, teOpen, teHasty>>

(* Name and, of a new tenant, slug are required.  The button is disabled   *)
(* while a save is under way, the fields are not.                          *)
SubmitForm ==
    /\ ~teLoading /\ ~teSubmitting
    /\ LET slug == IF teSlug = None THEN teForm.slug ELSE teSlug
       IN  /\ slug # None
           /\ teSubmitting' = TRUE
           /\ Send({}, IF teSlug = None THEN "post" ELSE "put",
                   [slug |-> slug,
                    data |-> [of |-> IF teForm.of = None THEN slug ELSE teForm.of, keep |-> teForm.keep]])
    /\ UNCHANGED <<teSlug, teForm, teLoading, teOpen, teHasty>>

EditorOperator ==
    /\ teOpen
    /\ \/ FillForm /\ UNCHANGED clicks
       \/ Click /\ (GoToForm \/ SubmitForm)
    /\ UNCHANGED <<faults, tenDb>>
-----------------------------------------------------------------------------
(* A tenant that cannot be loaded leads back to the list, see LoadFails in *)
(* TenantConsole.                                                          *)
FormLoaded(r) ==
    /\ r.kind = "edit" /\ r.st = "ok"
    /\ teLoading' = FALSE
    /\ \E row \in r.rows : teForm' = [slug |-> r.row.slug, of |-> row.of, keep |-> row.keep]
    /\ Finish(r)
    /\ UNCHANGED <<teSlug, teSubmitting, teOpen, teHasty>>

(* After a failure the form stays; where a success leads, see TenantConsole. *)
SaveRefused(r) ==
    /\ r.kind \in {"put", "post"}
    /\ r.st # "ok"
    /\ teSubmitting' = FALSE
    /\ Finish(r)
    /\ UNCHANGED <<teSlug, teForm, teLoading, teOpen, teHasty>>

EditorAnswered ==
    /\ teOpen
    /\ \E r \in flight : r.st # "sent" /\ r.mine /\ (FormLoaded(r) \/ SaveRefused(r))
    /\ UNCHANGED <<clicks, faults, tenDb>>
-----------------------------------------------------------------------------
Saves == {r \in flight : r.kind \in {"put", "post"} /\ r.mine}

EditorTypeOK ==
    /\ teSlug \in Slugs \cup {None}
    /\ {teForm.slug, teForm.of} \subseteq Slugs \cup {None} /\ teForm.keep \in {"full", "none", ""}
    /\ <<teLoading, teSubmitting, teOpen, teHasty>> \in BOOLEAN \X BOOLEAN \X BOOLEAN \X BOOLEAN

(* What is saved as a tenant are that tenant's own data, as loaded for it  *)
(* or typed for it, unless the URL changed before the form had settled:    *)
(* the answers to two loads are not told apart.                            *)
SavesWhatItLoaded ==
    \A r \in flight : r.kind \in {"put", "post"} => r.row.data.of = r.row.slug \/ teHasty

(* While the form is open it is submitting exactly when one save of it is  *)
(* under way, and never two, wherever the URL has gone since.              *)
OneSaveAtATime ==
    teOpen => /\ teSubmitting <=> Saves # {}
              /\ Cardinality(Saves) <= 1
=============================================================================
