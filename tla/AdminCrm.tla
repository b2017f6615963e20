------------------------------- MODULE AdminCrm -------------------------------
(***************************************************************************)
(* What the admin pages change about the customers of one email address:   *)
(* notes, a tag and the licence's status.  A form names its customer by    *)
(* the address, its note by text and time, its tag by name: the site looks *)
(* each of them up, and the Worker, which checks the admin again, writes   *)
(* and then audits, one database round trip each.  Meanwhile the customer  *)
(* deletes their data, the address signs up anew, the admin loses the role.*)
(***************************************************************************)
EXTENDS Naturals, FiniteSets

CONSTANTS
    Forms,      \* submitted forms
    NoForm,     \* the origin of an older note
    MaxPersons, \* bound on the customer rows the address has in turn
    MaxNotes,   \* bound on the notes ever written
    LastSecond  \* bound on the clock

ASSUME FormsAssumption == NoForm \notin Forms
ASSUME CrmBounds == MaxPersons \in Nat \ {0} /\ MaxNotes \in Nat /\ LastSecond \in Nat

VARIABLES
    persons, holder, \* customer rows so far; the one with the address, 0 if none
    licences, \* each row's licence: none, "kept", or "deleted_by_user"
    notes,    \* customer_notes: all of one text, so told apart by id, customer, time
    written,  \* notes written so far
    catalog,  \* is the tag in customer_tags?
    tagged,   \* customer_tag_assignments of the tag
    second,   \* CURRENT_TIMESTAMP
    role,     \* is user.role of the acting admin still 'admin'?
    flag,     \* customers.admin of the acting admin
    stage, op, time, subject, object, \* each form: next step, what it does, the time
                                      \* of its note, and the ids looked up
    changed,  \* forms whose statement changed a row (history)
    audited,  \* forms with an audit row that reports success (history)
    gone,     \* customer rows whose owner deleted their data (history)
    bound,    \* forms that had looked up a customer when it was deleted (history)
    trusted   \* forms that had read the role when it was lost (history)

customers  == <<persons, holder, licences>>
crm        == <<notes, written, catalog, tagged>>
standing   == <<role, flag>>
inputs     == <<op, time>>
targets    == <<subject, object>>
crmHistory == <<changed, audited, gone, bound, trusted>>
crmVars    == <<customers, crm, second, standing, stage, inputs, targets, crmHistory>>

NoteOps == {"createNote", "deleteNote"}
TagOps  == {"assignTag", "removeTag"}
Ops     == NoteOps \cup TagOps \cup {"createTag", "updateLicense"}

Stages == {"none", "role", "mint", "resolve", "note", "tag", "flag", "write", "audit", "done"}

\* "kept" stands for every status but the one a deletion sets, all of which an
\* admin may set.
Licences == {"none", "kept", "deleted_by_user"}

OldNote == [id |-> 1, of |-> 1, at |-> 0, by |-> NoForm]

CrmInit ==
    /\ persons = 1 /\ holder = 1
    /\ licences = [c \in 1 .. MaxPersons |-> IF c = 1 THEN "kept" ELSE "none"]
    /\ \/ notes = {} /\ written = 0
       \/ notes = {OldNote} /\ written = 1
    /\ catalog \in BOOLEAN
    /\ tagged \in SUBSET {1} /\ (tagged # {} => catalog)
    /\ second = 0 /\ role = TRUE /\ flag = TRUE
    /\ stage   = [f \in Forms |-> "none"]
    /\ op      = [f \in Forms |-> "createTag"]
    /\ time    = [f \in Forms |-> 0]
    /\ subject = [f \in Forms |-> 0]
    /\ object  = [f \in Forms |-> 0]
    /\ changed = {} /\ audited = {} /\ gone = {} /\ bound = {} /\ trusted = {}

Step(f, from, to) == stage[f] = from /\ stage' = [stage EXCEPT ![f] = to]

(***************************************************************************)
(* The site.                                                               *)
(***************************************************************************)

\* The forms on the page of the address's customer, who has a licence.
Offers(o) ==
    /\ o \in TagOps => catalog
    /\ o = "removeTag" => holder \in tagged

\* The page may be an old one when its form gets through.
Submit(f) ==
    /\ holder # 0 /\ licences[holder] # "none"
    /\ Step(f, "none", "role")
    /\ \E o \in Ops : Offers(o) /\ op' = [op EXCEPT ![f] = o]
    /\ \/ op'[f] # "deleteNote" /\ UNCHANGED time
       \/ /\ op'[f] = "deleteNote"
          /\ \E n \in notes : n.of = holder /\ time' = [time EXCEPT ![f] = n.at]
    /\ UNCHANGED <<customers, crm, second, standing, targets, crmHistory>>

\* Mutant of ReadRole: the role the page was loaded with is good enough.
RoleOfPage(f) ==
    /\ Step(f, "role", "mint")
    /\ UNCHANGED <<customers, crm, second, standing, inputs, targets, crmHistory>>

\* Any other role ends the request with 403.
ReadRole(f) ==
    /\ role /\ Step(f, "role", "mint")
    /\ UNCHANGED <<customers, crm, second, standing, inputs, targets, crmHistory>>

\* The session bridge gives the customer row the role it was told.
MintSession(f) ==
    /\ Step(f, "mint", IF op[f] = "createTag" THEN "flag" ELSE "resolve")
    /\ flag' = TRUE
    /\ UNCHANGED <<customers, crm, second, role, inputs, targets, crmHistory>>

\* SELECT id FROM customers WHERE email: without a row the request ends.
ResolveCustomer(f) ==
    /\ holder # 0
    /\ Step(f, "resolve", CASE op[f] = "deleteNote" -> "note"
                            [] op[f] \in TagOps     -> "tag"
                            [] OTHER                -> "flag")
    /\ subject' = [subject EXCEPT ![f] = holder]
    /\ UNCHANGED <<customers, crm, second, standing, inputs, object, crmHistory>>

Matching(f) == {n \in notes : n.of = subject[f] /\ n.at = time[f]}

\* MIN(id) and COUNT(*): unless exactly one note matches the request ends with
\* 409.
ResolveNote(f) ==
    /\ \E n \in Matching(f) :
        /\ Matching(f) = {n}
        /\ object' = [object EXCEPT ![f] = n.id]
    /\ Step(f, "note", "flag")
    /\ UNCHANGED <<customers, crm, second, standing, inputs, subject, crmHistory>>

ResolveTag(f) ==
    /\ catalog /\ Step(f, "tag", "flag")
    /\ UNCHANGED <<customers, crm, second, standing, inputs, targets, crmHistory>>

(***************************************************************************)
(* The Worker.                                                             *)
(***************************************************************************)

\* The session and the admin flag of its row; else 401 or 403.
ValidateAdmin(f) ==
    /\ flag /\ Step(f, "flag", "write")
    /\ UNCHANGED <<customers, crm, second, standing, inputs, targets, crmHistory>>

Changes(f) == changed' = changed \cup {f}

\* The customer row is never removed, so the foreign key holds.
CreateNote(f) ==
    /\ op[f] = "createNote" /\ written < MaxNotes
    /\ Step(f, "write", "audit")
    /\ written' = written + 1
    /\ notes'   = notes \cup {[id |-> written + 1, of |-> subject[f], at |-> second, by |-> f]}
    /\ Changes(f)
    /\ UNCHANGED <<customers, catalog, tagged, second, standing, inputs, targets,
                   audited, gone, bound, trusted>>

\* DELETE ... RETURNING, whose answer the handler ignores.
DeleteNote(f) ==
    LET found == {n \in notes : n.id = object[f]} IN
    /\ op[f] = "deleteNote"
    /\ Step(f, "write", "audit")
    /\ notes' = notes \ found
    /\ IF found # {} THEN Changes(f) ELSE UNCHANGED changed
    /\ UNCHANGED <<customers, written, catalog, tagged, second, standing, inputs, targets,
                   audited, gone, bound, trusted>>

\* INSERT; a violated primary key is the answer 'already-assigned'.
AssignTag(f) ==
    /\ op[f] = "assignTag"
    /\ tagged' = tagged \cup {subject[f]}
    /\ \/ subject[f] \notin tagged /\ Step(f, "write", "audit") /\ Changes(f)
       \/ subject[f] \in tagged /\ Step(f, "write", "done") /\ UNCHANGED changed
    /\ UNCHANGED <<customers, notes, written, catalog, second, standing, inputs, targets,
                   audited, gone, bound, trusted>>

\* Like DeleteNote.
RemoveTag(f) ==
    /\ op[f] = "removeTag"
    /\ Step(f, "write", "audit")
    /\ tagged' = tagged \ {subject[f]}
    /\ IF subject[f] \in tagged THEN Changes(f) ELSE UNCHANGED changed
    /\ UNCHANGED <<customers, notes, written, catalog, second, standing, inputs, targets,
                   audited, gone, bound, trusted>>

\* The name is unique; a second INSERT fails.
CreateTag(f) ==
    /\ op[f] = "createTag" /\ ~catalog
    /\ Step(f, "write", "audit")
    /\ catalog' = TRUE
    /\ Changes(f)
    /\ UNCHANGED <<customers, notes, written, tagged, second, standing, inputs, targets,
                   audited, gone, bound, trusted>>

\* UPDATE by customer id, whatever the status was.  Without a licence the audit
\* row reports a failure, which is not one of audited.
UpdateUser(f) ==
    /\ op[f] = "updateLicense" /\ stage[f] = "write"
    /\ \/ /\ licences[subject[f]] # "none" /\ Step(f, "write", "audit")
          /\ licences' = [licences EXCEPT ![subject[f]] = "kept"]
          /\ Changes(f)
       \/ /\ licences[subject[f]] = "none" /\ Step(f, "write", "done")
          /\ UNCHANGED <<licences, changed>>
    /\ UNCHANGED <<persons, holder, crm, second, standing, inputs, targets,
                   audited, gone, bound, trusted>>

\* Best effort: a failed INSERT is only logged (EndForm).
LogAdminAudit(f) ==
    /\ Step(f, "audit", "done")
    /\ audited' = audited \cup {f}
    /\ UNCHANGED <<customers, crm, second, standing, inputs, targets, changed, gone, bound, trusted>>

\* A refusal, a failed statement or an evicted invocation.
EndForm(f) ==
    /\ stage[f] \notin {"none", "done"}
    /\ stage' = [stage EXCEPT ![f] = "done"]
    /\ UNCHANGED <<customers, crm, second, standing, inputs, targets, crmHistory>>

(***************************************************************************)
(* The customer, the admin's role, the clock.                              *)
(***************************************************************************)
LookedUp == {f \in Forms : subject[f] = holder /\ stage[f] # "done"}

EraseHolder ==
    /\ holder # 0
    /\ licences' = [licences EXCEPT ![holder] = IF @ = "none" THEN @ ELSE "deleted_by_user"]
    /\ gone'   = gone \cup {holder}
    /\ bound'  = bound \cup LookedUp
    /\ UNCHANGED <<persons, written, catalog, tagged, second, standing, stage, inputs, targets,
                   changed, audited, trusted>>

\* Mutant of EraseCustomer: the customer row keeps its address.
EraseButName ==
    EraseHolder /\ notes' = {n \in notes : n.of # holder} /\ UNCHANGED holder

\* The deletion batch: the notes go and the address is overwritten; tags stay.
EraseCustomer ==
    EraseHolder /\ notes' = {n \in notes : n.of # holder} /\ holder' = 0

\* A login under the address inserts a new row, and its licence after that.
SignUpAnew ==
    /\ holder = 0 /\ persons < MaxPersons
    /\ persons' = persons + 1 /\ holder' = persons + 1
    /\ UNCHANGED <<licences, crm, second, standing, stage, inputs, targets, crmHistory>>

ProvisionHolder ==
    /\ holder # 0 /\ licences[holder] = "none"
    /\ licences' = [licences EXCEPT ![holder] = "kept"]
    /\ UNCHANGED <<persons, holder, crm, second, standing, stage, inputs, targets, crmHistory>>

\* Another admin takes the role away.
LoseRole ==
    /\ role /\ role' = FALSE
    /\ trusted' = {f \in Forms : stage[f] \notin {"none", "role"}}
    /\ UNCHANGED <<customers, crm, second, flag, stage, inputs, targets,
                   changed, audited, gone, bound>>

\* The former admin's next visit tells the Worker, and revokes the sessions.
SyncLostRole ==
    /\ ~role /\ flag' = FALSE
    /\ UNCHANGED <<customers, crm, second, role, stage, inputs, targets, crmHistory>>

Tick ==
    /\ second < LastSecond /\ second' = second + 1
    /\ UNCHANGED <<customers, crm, standing, stage, inputs, targets, crmHistory>>

CrmNext ==
    \/ \E f \in Forms :
        \/ Submit(f) \/ ReadRole(f) \/ MintSession(f)
        \/ ResolveCustomer(f) \/ ResolveNote(f) \/ ResolveTag(f) \/ ValidateAdmin(f)
        \/ CreateNote(f) \/ DeleteNote(f) \/ AssignTag(f) \/ RemoveTag(f) \/ CreateTag(f)
        \/ UpdateUser(f) \/ LogAdminAudit(f) \/ EndForm(f)
    \/ EraseCustomer \/ SignUpAnew \/ ProvisionHolder \/ LoseRole \/ SyncLostRole \/ Tick

CrmSpec == CrmInit /\ [][CrmNext]_crmVars

-----------------------------------------------------------------------------
(***************************************************************************)
(* Properties.                                                             *)
(***************************************************************************)

\* A deletion reaches the admin pages: a note about a deleted customer, or a
\* revived licence, comes from a form that had looked the customer up before.
\* Nothing finds them afterwards, not even once the address signed up again.
DeletionReachesCrm ==
    \A c \in gone :
        /\ \A n \in notes : n.of = c => n.by \in bound
        /\ licences[c] = "kept" =>
               \E f \in bound : op[f] = "updateLicense" /\ subject[f] = c

\* A lost role reaches the Worker although it keeps a flag of its own, which a
\* form under way may even set again: only forms that had read the role before
\* change anything from then on.
LostRoleBinds == [][~role => changed' \subseteq changed \cup trusted]_crmVars

\* crm.ts:129, 165 and 271 have the store report 'not-found' so that callers do
\* not audit a mutation, deletion or removal that never happened.
AuditedMutationsHappened == audited \subseteq changed

CrmTypeOK ==
    /\ persons \in 1 .. MaxPersons /\ holder \in 0 .. persons
    /\ licences \in [1 .. MaxPersons -> Licences]
    /\ notes \subseteq [id : Nat, of : 0 .. MaxPersons, at : Nat, by : Forms \cup {NoForm}]
    /\ written \in Nat /\ catalog \in BOOLEAN /\ tagged \subseteq 0 .. MaxPersons
    /\ second \in Nat /\ role \in BOOLEAN /\ flag \in BOOLEAN
    /\ stage   \in [Forms -> Stages]
    /\ op      \in [Forms -> Ops]
    /\ time    \in [Forms -> Nat]
    /\ subject \in [Forms -> 0 .. MaxPersons]
    /\ object  \in [Forms -> Nat]
    /\ changed \cup audited \cup bound \cup trusted \subseteq Forms
    /\ gone \subseteq 1 .. persons

\* What the two properties rest on: an id of a deleted customer is held only by
\* forms that had looked it up, and without the role only those that had read
\* it are past reading it.
IdsTracked ==
    /\ holder \notin gone
    /\ \A f \in Forms :
        /\ stage[f] \in {"none", "role", "mint", "resolve"} => subject[f] = 0
        /\ subject[f] \in gone /\ stage[f] # "done" => f \in bound
        /\ ~role /\ stage[f] \notin {"none", "role", "done"} => f \in trusted

CrmInv == CrmTypeOK /\ IdsTracked /\ DeletionReachesCrm
=============================================================================
