---------------------------- MODULE AdminCrmProofs ----------------------------
(***************************************************************************)
(* Proofs about AdminCrm for any forms and bounds: its types, what the     *)
(* admin pages keep of a deleted customer, and what a lost role stops.     *)
(***************************************************************************)
EXTENDS AdminCrm, TLAPS

USE FormsAssumption, CrmBounds

\* What every deletion and every lost role leaves to the forms under way.
Tracked(f) ==
    /\ stage[f] \in {"none", "role", "mint", "resolve"} => subject[f] = 0
    /\ subject[f] \in gone /\ stage[f] # "done" => f \in bound
    /\ ~role /\ stage[f] \notin {"none", "role", "done"} => f \in trusted

\* IdsTracked, form by form.
LEMMA TrackedForms == IdsTracked <=> holder \notin gone /\ \A f \in Forms : Tracked(f)
  BY DEF IdsTracked, Tracked

\* The invariant holds at first.
LEMMA InitCrm == CrmInit => CrmInv
<1> SUFFICES ASSUME CrmInit PROVE CrmInv
  OBVIOUS
<1>1. CrmTypeOK
  <2>1. \A n \in notes : n = OldNote
    BY DEF CrmInit
  <2>2. notes \subseteq [id : Nat, of : 0 .. MaxPersons, at : Nat, by : Forms \cup {NoForm}]
    BY <2>1 DEF OldNote
  <2>3. licences \in [1 .. MaxPersons -> Licences]
    BY DEF CrmInit, Licences
  <2>4. /\ stage \in [Forms -> Stages] /\ op \in [Forms -> Ops]
        /\ time \in [Forms -> Nat] /\ object \in [Forms -> Nat]
        /\ subject \in [Forms -> 0 .. MaxPersons]
    BY DEF CrmInit, Stages, Ops, NoteOps, TagOps
  <2> QED BY <2>2, <2>3, <2>4 DEF CrmInit, CrmTypeOK
<1>2. IdsTracked
  BY DEF CrmInit, IdsTracked
<1>3. DeletionReachesCrm
  BY DEF CrmInit, DeletionReachesCrm
<1> QED BY <1>1, <1>2, <1>3 DEF CrmInv

(***************************************************************************)
(* A form that moves on without touching what a customer's deletion        *)
(* reaches, except that it may note ids.                                   *)
(***************************************************************************)
LEMMA FormMoves ==
    ASSUME CrmInv, NEW f \in Forms, NEW from \in Stages, NEW to \in Stages \ {"none", "role"},
           Step(f, from, to), from \notin {"none", "done"},
           role \/ from # "role",
           to \in {"mint", "resolve"} => from \in {"role", "mint"},
           subject' = subject,
           UNCHANGED <<holder, gone, bound, role, trusted>>
    PROVE  IdsTracked' /\ stage' \in [Forms -> Stages]
<1>1. \A g \in Forms : stage'[g] = IF g = f THEN to ELSE stage[g]
  BY DEF CrmInv, CrmTypeOK, Step
<1>2. stage[f] = from
  BY DEF Step
<1>3. ASSUME NEW g \in Forms PROVE Tracked(g)'
  <2>1. Tracked(g)
    BY TrackedForms DEF CrmInv
  <2>2. CASE g # f
    BY <1>1, <2>1, <2>2 DEF Tracked
  <2>3. CASE g = f
    BY <1>1, <1>2, <2>1, <2>3 DEF Tracked
  <2> QED BY <2>2, <2>3
<1>4. IdsTracked'
  <2>1. holder' \notin gone'
    BY DEF CrmInv, IdsTracked
  <2> QED BY <1>3, <2>1 DEF IdsTracked, Tracked
<1> QED BY <1>4 DEF CrmInv, CrmTypeOK, Step

(***************************************************************************)
(* The site.                                                               *)
(***************************************************************************)

\* A form that only moves on keeps everything.
LEMMA QuietStep ==
    ASSUME CrmInv, NEW f \in Forms, NEW from \in Stages, NEW to \in Stages \ {"none", "role"},
           Step(f, from, to), from \notin {"none", "done"},
           role \/ from # "role",
           to \in {"mint", "resolve"} => from \in {"role", "mint"},
           UNCHANGED <<customers, crm, second, role, inputs, subject>>,
           UNCHANGED <<gone, bound, trusted, changed>>,
           flag' \in BOOLEAN, object' \in [Forms -> Nat], audited' \subseteq Forms
    PROVE  CrmInv'
<1>1. IdsTracked' /\ stage' \in [Forms -> Stages]
  BY FormMoves DEF customers
<1>2. CrmTypeOK'
  BY <1>1 DEF CrmInv, CrmTypeOK, customers, crm, inputs
<1>3. DeletionReachesCrm'
  BY DEF CrmInv, DeletionReachesCrm, customers, crm, inputs
<1> QED BY <1>1, <1>2, <1>3 DEF CrmInv

\* A form that starts has looked up nobody.
LEMMA SubmitKeeps ==
    ASSUME CrmInv, NEW f \in Forms, Submit(f) PROVE CrmInv'
<1> USE DEF customers, crm, standing, inputs, targets, crmHistory
<1>1. stage[f] = "none" /\ stage' = [stage EXCEPT ![f] = "role"]
  BY DEF Submit, Step
<1>2. PICK o \in Ops : op' = [op EXCEPT ![f] = o]
  BY DEF Submit
<1>3. time' \in [Forms -> Nat]
  <2>1. CASE UNCHANGED time
    BY <2>1 DEF CrmInv, CrmTypeOK
  <2>2. CASE \E n \in notes : n.of = holder /\ time' = [time EXCEPT ![f] = n.at]
    <3>1. PICK n \in notes : time' = [time EXCEPT ![f] = n.at]
      BY <2>2
    <3>2. n.at \in Nat
      BY DEF CrmInv, CrmTypeOK
    <3> QED BY <3>1, <3>2 DEF CrmInv, CrmTypeOK
  <2> QED BY <2>1, <2>2 DEF Submit
<1>4. CrmTypeOK'
  <2>1. stage' \in [Forms -> Stages] /\ op' \in [Forms -> Ops]
    BY <1>1, <1>2 DEF CrmInv, CrmTypeOK, Stages
  <2> QED BY <1>3, <2>1 DEF Submit, CrmInv, CrmTypeOK
<1>5. \A g \in Forms : /\ stage'[g] = IF g = f THEN "role" ELSE stage[g]
                       /\ g # f => op'[g] = op[g]
  BY <1>1, <1>2 DEF CrmInv, CrmTypeOK
<1>6. subject[f] = 0 /\ 0 \notin gone
  BY <1>1 DEF CrmInv, CrmTypeOK, IdsTracked
<1>7. IdsTracked'
  <2>1. \A g \in Forms : Tracked(g)'
    <3> SUFFICES ASSUME NEW g \in Forms PROVE Tracked(g)'
      OBVIOUS
    <3>1. Tracked(g)
      BY TrackedForms DEF CrmInv
    <3> QED BY <1>1, <1>5, <1>6, <3>1 DEF Tracked, Submit
  <2> QED BY <2>1 DEF CrmInv, IdsTracked, Tracked, Submit
\* The form had looked up nobody, so its new operation is about nobody deleted.
<1>8. DeletionReachesCrm'
  <2> SUFFICES ASSUME NEW c \in gone
               PROVE  /\ \A n \in notes : n.of = c => n.by \in bound
                      /\ licences[c] = "kept" =>
                             \E g \in bound : op'[g] = "updateLicense" /\ subject[g] = c
    BY DEF DeletionReachesCrm, Submit
  <2>1. \A n \in notes : n.of = c => n.by \in bound
    BY DEF CrmInv, DeletionReachesCrm
  <2>2. ASSUME licences[c] = "kept"
        PROVE  \E g \in bound : op'[g] = "updateLicense" /\ subject[g] = c
    <3>1. PICK g \in bound : op[g] = "updateLicense" /\ subject[g] = c
      BY <2>2 DEF CrmInv, DeletionReachesCrm
    <3>2. g \in Forms /\ g # f
      BY <1>6, <3>1 DEF CrmInv, CrmTypeOK
    <3> QED BY <1>5, <3>1, <3>2
  <2> QED BY <2>1, <2>2
<1> QED BY <1>4, <1>7, <1>8 DEF CrmInv

\* Only the current holder is found, who is not deleted.
LEMMA ResolveCustomerKeeps ==
    ASSUME CrmInv, NEW f \in Forms, ResolveCustomer(f) PROVE CrmInv'
<1> USE DEF customers, crm, standing, inputs, targets, crmHistory
<1> DEFINE to == stage'[f]
<1>1. /\ stage[f] = "resolve"
      /\ \A g \in Forms : g # f => stage'[g] = stage[g]
      /\ to \in {"note", "tag", "flag"}
      /\ stage' \in [Forms -> Stages]
  <2>1. PICK d \in {"note", "tag", "flag"} : Step(f, "resolve", d)
    BY DEF ResolveCustomer
  <2> QED BY <2>1 DEF Step, CrmInv, CrmTypeOK, Stages
<1>2. /\ \A g \in Forms : subject'[g] = IF g = f THEN holder ELSE subject[g]
      /\ subject' \in [Forms -> 0 .. MaxPersons]
  BY DEF ResolveCustomer, CrmInv, CrmTypeOK
<1>3. CrmTypeOK'
  BY <1>1, <1>2 DEF ResolveCustomer, CrmInv, CrmTypeOK
<1>4. \A g \in Forms : Tracked(g)'
  <2> SUFFICES ASSUME NEW g \in Forms PROVE Tracked(g)'
    OBVIOUS
  <2>1. Tracked(g) /\ holder \notin gone
    BY TrackedForms DEF CrmInv
  <2>2. UNCHANGED <<gone, bound, role, trusted, holder>>
    BY DEF ResolveCustomer
  <2>3. CASE g = f
    BY <1>1, <1>2, <2>1, <2>2, <2>3 DEF Tracked
  <2>4. CASE g # f
    BY <1>1, <1>2, <2>1, <2>2, <2>4 DEF Tracked
  <2> QED BY <2>3, <2>4
<1>5. IdsTracked'
  BY <1>4 DEF CrmInv, IdsTracked, Tracked, ResolveCustomer
<1>6. DeletionReachesCrm'
  <2> SUFFICES ASSUME NEW c \in gone
               PROVE  /\ \A n \in notes : n.of = c => n.by \in bound
                      /\ licences[c] = "kept" =>
                             \E g \in bound : op[g] = "updateLicense" /\ subject'[g] = c
    BY DEF DeletionReachesCrm, ResolveCustomer
  <2>1. subject[f] = 0 /\ c # 0
    BY <1>1 DEF CrmInv, CrmTypeOK, IdsTracked
  <2>2. \A g \in bound : g \in Forms
    BY DEF CrmInv, CrmTypeOK
  <2> QED BY <1>2, <2>1, <2>2 DEF CrmInv, DeletionReachesCrm
<1> QED BY <1>3, <1>5, <1>6 DEF CrmInv

\* The note's id is one of the note's table.
LEMMA ResolveNoteKeeps ==
    ASSUME CrmInv, NEW f \in Forms, ResolveNote(f) PROVE CrmInv'
<1>1. PICK n \in Matching(f) : object' = [object EXCEPT ![f] = n.id]
  BY DEF ResolveNote
<1>2. n.id \in Nat
  BY DEF Matching, CrmInv, CrmTypeOK
<1>3. object' \in [Forms -> Nat]
  BY <1>1, <1>2 DEF CrmInv, CrmTypeOK
<1>4. /\ Step(f, "note", "flag") /\ flag' \in BOOLEAN /\ audited' \subseteq Forms
      /\ UNCHANGED <<customers, crm, second, role, inputs, subject>>
      /\ UNCHANGED <<gone, bound, trusted, changed>>
  BY DEF ResolveNote, standing, crmHistory, CrmInv, CrmTypeOK
<1> QED BY <1>3, <1>4, QuietStep DEF Stages

\* The steps that change nothing but the form's stage, the admin's flag or the
\* audit trail.
LEMMA QuietActions ==
    ASSUME CrmInv, NEW f \in Forms,
           \/ ReadRole(f) \/ MintSession(f) \/ ResolveTag(f) \/ ValidateAdmin(f)
           \/ LogAdminAudit(f) \/ EndForm(f)
    PROVE  CrmInv'
<1> USE DEF standing, targets, crmHistory
<1>1. flag \in BOOLEAN /\ object \in [Forms -> Nat] /\ audited \subseteq Forms
      /\ stage[f] \in Stages
  BY DEF CrmInv, CrmTypeOK
<1>2. CASE ReadRole(f)
  BY <1>1, <1>2, QuietStep DEF ReadRole, Stages
<1>3. CASE MintSession(f)
  <2>1. PICK to \in {"flag", "resolve"} : Step(f, "mint", to)
    BY <1>3 DEF MintSession
  <2>2. /\ flag' \in BOOLEAN
        /\ UNCHANGED <<customers, crm, second, role, inputs, subject, object, audited>>
        /\ UNCHANGED <<gone, bound, trusted, changed>>
    BY <1>3 DEF MintSession
  <2> QED BY <1>1, <2>1, <2>2, QuietStep DEF Stages
<1>4. CASE ResolveTag(f)
  BY <1>1, <1>4, QuietStep DEF ResolveTag, Stages
<1>5. CASE ValidateAdmin(f)
  BY <1>1, <1>5, QuietStep DEF ValidateAdmin, Stages
<1>6. CASE LogAdminAudit(f)
  <2>1. audited' \subseteq Forms
    BY <1>1, <1>6 DEF LogAdminAudit
  <2> QED BY <1>1, <1>6, <2>1, QuietStep DEF LogAdminAudit, Stages
<1>7. CASE EndForm(f)
  <2>1. /\ stage' = [stage EXCEPT ![f] = "done"] /\ stage' \in [Forms -> Stages]
        /\ \A g \in Forms : stage'[g] = IF g = f THEN "done" ELSE stage[g]
    BY <1>7 DEF EndForm, CrmInv, CrmTypeOK, Stages
  <2>2. UNCHANGED <<customers, crm, second, standing, inputs, targets, crmHistory>>
    BY <1>7 DEF EndForm
  <2>3. CrmTypeOK'
    BY <2>1, <2>2 DEF CrmInv, CrmTypeOK, customers, crm, inputs
  <2>4. IdsTracked'
    BY <2>1, <2>2 DEF CrmInv, IdsTracked, customers
  <2>5. DeletionReachesCrm'
    BY <2>2 DEF CrmInv, DeletionReachesCrm, customers, crm, inputs
  <2> QED BY <2>3, <2>4, <2>5 DEF CrmInv
<1> QED BY <1>2, <1>3, <1>4, <1>5, <1>6, <1>7

(***************************************************************************)
(* The Worker.                                                             *)
(***************************************************************************)

\* A form whose statement ran goes on to its audit or ends.
LEMMA WriteMoves ==
    ASSUME CrmInv, NEW f \in Forms,
           Step(f, "write", "audit") \/ Step(f, "write", "done"),
           UNCHANGED <<persons, holder, second, standing, inputs, targets>>,
           UNCHANGED <<audited, gone, bound, trusted>>,
           changed' = changed \/ Changes(f)
    PROVE  /\ IdsTracked' /\ stage' \in [Forms -> Stages]
           /\ changed' \subseteq Forms
<1> USE DEF standing, inputs, targets
<1>1. changed' \subseteq Forms
  BY DEF CrmInv, CrmTypeOK, Changes
<1>2. CASE Step(f, "write", "audit")
  BY <1>1, <1>2, FormMoves DEF Stages
<1>3. CASE Step(f, "write", "done")
  BY <1>1, <1>3, FormMoves DEF Stages
<1> QED BY <1>2, <1>3

\* A new note is about the customer its form had looked up.
LEMMA CreateNoteKeeps ==
    ASSUME CrmInv, NEW f \in Forms, CreateNote(f) PROVE CrmInv'
<1> USE DEF customers, standing, inputs, targets
<1> DEFINE new == [id |-> written + 1, of |-> subject[f], at |-> second, by |-> f]
<1>1. notes' = notes \cup {new} /\ Step(f, "write", "audit") /\ stage[f] = "write"
  BY DEF CreateNote, Step
<1>2. IdsTracked' /\ stage' \in [Forms -> Stages] /\ changed' \subseteq Forms
  BY <1>1, WriteMoves DEF CreateNote
<1>3. CrmTypeOK'
  <2>1. new \in [id : Nat, of : 0 .. MaxPersons, at : Nat, by : Forms \cup {NoForm}]
    BY DEF CrmInv, CrmTypeOK
  <2>2. written' \in Nat
    BY DEF CreateNote, CrmInv, CrmTypeOK
  <2> QED BY <1>1, <1>2, <2>1, <2>2 DEF CreateNote, CrmInv, CrmTypeOK
\* A form that still writes about a deleted customer had looked it up before.
<1>4. DeletionReachesCrm'
  <2>1. subject[f] \in gone => f \in bound
    BY <1>1 DEF CrmInv, IdsTracked
  <2>2. \A n \in notes' : n \in notes \/ (n.of = subject[f] /\ n.by = f)
    BY <1>1
  <2> QED BY <2>1, <2>2 DEF CreateNote, CrmInv, DeletionReachesCrm
<1> QED BY <1>2, <1>3, <1>4 DEF CrmInv

\* The statements that only take notes away or change tags.
LEMMA OtherWritesKeep ==
    ASSUME CrmInv, NEW f \in Forms,
           DeleteNote(f) \/ AssignTag(f) \/ RemoveTag(f) \/ CreateTag(f)
    PROVE  CrmInv'
<1> USE DEF customers, standing, inputs, targets
<1>1. /\ Step(f, "write", "audit") \/ Step(f, "write", "done")
      /\ UNCHANGED <<customers, written, second, standing, inputs, targets,
                     audited, gone, bound, trusted>>
      /\ changed' = changed \/ Changes(f)
      /\ notes' \subseteq notes
      /\ catalog' \in BOOLEAN
      /\ tagged' \subseteq 0 .. MaxPersons
  <2>1. /\ notes \subseteq notes /\ catalog \in BOOLEAN
        /\ tagged \subseteq 0 .. MaxPersons /\ subject[f] \in 0 .. MaxPersons
    BY DEF CrmInv, CrmTypeOK
  <2>2. CASE DeleteNote(f)
    BY <2>1, <2>2 DEF DeleteNote
  <2>3. CASE AssignTag(f)
    BY <2>1, <2>3 DEF AssignTag
  <2>4. CASE RemoveTag(f)
    BY <2>1, <2>4 DEF RemoveTag
  <2>5. CASE CreateTag(f)
    BY <2>1, <2>5 DEF CreateTag
  <2> QED BY <2>2, <2>3, <2>4, <2>5
<1>2. IdsTracked' /\ stage' \in [Forms -> Stages] /\ changed' \subseteq Forms
  BY <1>1, WriteMoves
<1>3. CrmTypeOK'
  BY <1>1, <1>2 DEF CrmInv, CrmTypeOK
<1>4. DeletionReachesCrm'
  BY <1>1 DEF CrmInv, DeletionReachesCrm
<1> QED BY <1>2, <1>3, <1>4 DEF CrmInv

\* A changed licence is that of the customer its form had looked up.
LEMMA UpdateUserKeeps ==
    ASSUME CrmInv, NEW f \in Forms, UpdateUser(f) PROVE CrmInv'
<1> USE DEF customers, crm, standing, inputs, targets
<1>1. /\ op[f] = "updateLicense" /\ stage[f] = "write"
      /\ Step(f, "write", "audit") \/ Step(f, "write", "done")
      /\ changed' = changed \/ Changes(f)
  BY DEF UpdateUser
<1>2. IdsTracked' /\ stage' \in [Forms -> Stages] /\ changed' \subseteq Forms
  BY <1>1, WriteMoves DEF UpdateUser
<1>3. /\ licences' \in [1 .. MaxPersons -> Licences]
      /\ \A c \in 1 .. MaxPersons : licences'[c] = licences[c] \/ c = subject[f]
  BY DEF UpdateUser, CrmInv, CrmTypeOK, Licences
<1>4. CrmTypeOK'
  BY <1>2, <1>3 DEF UpdateUser, CrmInv, CrmTypeOK
<1>5. DeletionReachesCrm'
  <2> SUFFICES ASSUME NEW c \in gone
               PROVE  /\ \A n \in notes : n.of = c => n.by \in bound
                      /\ licences'[c] = "kept" =>
                             \E g \in bound : op[g] = "updateLicense" /\ subject[g] = c
    BY DEF DeletionReachesCrm, UpdateUser
  <2>1. c \in 1 .. MaxPersons
    BY DEF CrmInv, CrmTypeOK
  <2>2. CASE c = subject[f]
    <3>1. f \in bound
      BY <1>1, <2>2 DEF CrmInv, IdsTracked
    <3> QED BY <1>1, <2>2, <3>1 DEF CrmInv, DeletionReachesCrm
  <2>3. CASE c # subject[f]
    BY <1>3, <2>1, <2>3 DEF CrmInv, DeletionReachesCrm
  <2> QED BY <2>2, <2>3
<1> QED BY <1>2, <1>4, <1>5 DEF CrmInv

(***************************************************************************)
(* The customer, the admin's role, the clock.                              *)
(***************************************************************************)

\* A deletion takes every note of the customer and binds whoever holds its id.
LEMMA EraseKeeps ==
    ASSUME CrmInv, EraseCustomer PROVE CrmInv'
<1> USE DEF standing, inputs, targets, EraseCustomer, EraseHolder
<1>1. holder \in 1 .. MaxPersons /\ holder \in 1 .. persons
  BY DEF CrmInv, CrmTypeOK
<1>2. licences' = [licences EXCEPT ![holder] = IF @ = "none" THEN @ ELSE "deleted_by_user"]
      /\ licences' \in [1 .. MaxPersons -> Licences]
  BY <1>1 DEF CrmInv, CrmTypeOK, Licences
<1>3. CrmTypeOK'
  BY <1>1, <1>2 DEF CrmInv, CrmTypeOK, LookedUp
<1>4. IdsTracked'
  <2>1. holder' \notin gone'
    BY <1>1 DEF CrmInv, CrmTypeOK
  <2>2. \A g \in Forms : Tracked(g)'
    <3> SUFFICES ASSUME NEW g \in Forms PROVE Tracked(g)'
      OBVIOUS
    <3>1. Tracked(g)
      BY TrackedForms DEF CrmInv
    <3>2. subject[g] = holder /\ stage[g] # "done" => g \in bound'
      BY DEF LookedUp
    <3> QED BY <3>1, <3>2 DEF Tracked
  <2> QED BY <2>1, <2>2 DEF IdsTracked, Tracked
<1>5. DeletionReachesCrm'
  <2> SUFFICES ASSUME NEW c \in gone'
               PROVE  /\ \A n \in notes' : n.of = c => n.by \in bound'
                      /\ licences'[c] = "kept" =>
                             \E g \in bound' : op[g] = "updateLicense" /\ subject[g] = c
    BY DEF DeletionReachesCrm
  <2>1. CASE c = holder
    BY <1>1, <1>2, <2>1 DEF CrmInv, CrmTypeOK
  <2>2. CASE c # holder
    <3>1. c \in gone /\ c \in 1 .. MaxPersons
      BY <2>2 DEF CrmInv, CrmTypeOK
    <3>2. licences'[c] = licences[c]
      BY <1>2, <2>2, <3>1 DEF CrmInv, CrmTypeOK
    <3> QED BY <3>1, <3>2 DEF CrmInv, DeletionReachesCrm
  <2> QED BY <2>1, <2>2
<1> QED BY <1>3, <1>4, <1>5 DEF CrmInv

\* New rows are of nobody deleted, and a lost role is noted with its forms.
LEMMA OthersKeep ==
    ASSUME CrmInv,
           SignUpAnew \/ ProvisionHolder \/ LoseRole \/ SyncLostRole \/ Tick
    PROVE  CrmInv'
<1> USE DEF customers, crm, standing, inputs, targets, crmHistory
<1>1. CASE SignUpAnew
  <2>1. CrmTypeOK' /\ holder' \notin gone'
    BY <1>1 DEF SignUpAnew, CrmInv, CrmTypeOK
  <2>2. IdsTracked' /\ DeletionReachesCrm'
    BY <1>1, <2>1 DEF SignUpAnew, CrmInv, IdsTracked, DeletionReachesCrm
  <2> QED BY <2>1, <2>2 DEF CrmInv
<1>2. CASE ProvisionHolder
  <2>1. /\ licences' \in [1 .. MaxPersons -> Licences]
        /\ \A c \in 1 .. MaxPersons : c # holder => licences'[c] = licences[c]
    BY <1>2 DEF ProvisionHolder, CrmInv, CrmTypeOK, Licences
  <2>2. CrmTypeOK' /\ IdsTracked'
    BY <1>2, <2>1 DEF ProvisionHolder, CrmInv, CrmTypeOK, IdsTracked
  <2>3. \A c \in gone : licences'[c] = licences[c]
    BY <2>1 DEF CrmInv, CrmTypeOK, IdsTracked
  <2>4. DeletionReachesCrm'
    BY <1>2, <2>3 DEF ProvisionHolder, CrmInv, DeletionReachesCrm
  <2> QED BY <2>2, <2>4 DEF CrmInv
<1>3. CASE LoseRole
  <2>1. CrmTypeOK' /\ DeletionReachesCrm'
    BY <1>3 DEF LoseRole, CrmInv, CrmTypeOK, DeletionReachesCrm
  <2>2. IdsTracked'
    BY <1>3 DEF LoseRole, CrmInv, IdsTracked
  <2> QED BY <2>1, <2>2 DEF CrmInv
<1>4. CASE SyncLostRole
  BY <1>4 DEF SyncLostRole, CrmInv, CrmTypeOK, IdsTracked, DeletionReachesCrm
<1>5. CASE Tick
  BY <1>5 DEF Tick, CrmInv, CrmTypeOK, IdsTracked, DeletionReachesCrm
<1> QED BY <1>1, <1>2, <1>3, <1>4, <1>5

\* Every step keeps the invariant.
LEMMA StepKeeps == CrmInv /\ [CrmNext]_crmVars => CrmInv'
<1> SUFFICES ASSUME CrmInv, [CrmNext]_crmVars PROVE CrmInv'
  OBVIOUS
<1>1. CASE UNCHANGED crmVars
  BY <1>1 DEF crmVars, customers, crm, standing, inputs, targets, crmHistory,
              CrmInv, CrmTypeOK, IdsTracked, DeletionReachesCrm
<1>2. ASSUME NEW f \in Forms,
             \/ ReadRole(f) \/ MintSession(f) \/ ResolveTag(f) \/ ValidateAdmin(f)
             \/ LogAdminAudit(f) \/ EndForm(f)
      PROVE  CrmInv'
  BY <1>2, QuietActions
<1>3. ASSUME NEW f \in Forms,
             \/ Submit(f) \/ ResolveCustomer(f) \/ ResolveNote(f)
             \/ CreateNote(f) \/ DeleteNote(f) \/ AssignTag(f) \/ RemoveTag(f)
             \/ CreateTag(f) \/ UpdateUser(f)
      PROVE  CrmInv'
  BY <1>3, SubmitKeeps, ResolveCustomerKeeps, ResolveNoteKeeps, CreateNoteKeeps,
     OtherWritesKeep, UpdateUserKeeps
<1>4. CASE \/ EraseCustomer \/ SignUpAnew \/ ProvisionHolder
           \/ LoseRole \/ SyncLostRole \/ Tick
  BY <1>4, EraseKeeps, OthersKeep
<1> QED BY <1>1, <1>2, <1>3, <1>4 DEF CrmNext

(***************************************************************************)
(* The theorems.                                                           *)
(***************************************************************************)

\* The state stays as typed, and forms past the lookup of a customer, or past
\* reading the admin's role, are known to have been so at the deletion or the
\* loss (all handlers together).
THEOREM CrmInvariant == CrmSpec => []CrmInv
  BY InitCrm, StepKeeps, PTL DEF CrmSpec

\* A deletion reaches the admin pages: whatever is later found about a deleted
\* customer comes from a form that had looked it up before (deleteCustomerData
\* against the form actions of the customers page).
THEOREM DeletionReaches == CrmSpec => []DeletionReachesCrm
<1>1. CrmInv => DeletionReachesCrm
  BY DEF CrmInv
<1> QED BY <1>1, CrmInvariant, PTL

\* A lost role reaches the Worker: from then on only forms that had read the
\* role before change anything (loadAdminServiceSession against validateAdmin's
\* flag).
THEOREM LossBinds == CrmSpec => LostRoleBinds
<1>1. CrmInv /\ [CrmNext]_crmVars => [~role => changed' \subseteq changed \cup trusted]_crmVars
  <2> SUFFICES ASSUME CrmInv, CrmNext, ~role
               PROVE  changed' \subseteq changed \cup trusted
    BY DEF crmVars
  <2>1. ASSUME NEW f \in Forms, Changes(f), stage[f] = "write"
        PROVE  changed' \subseteq changed \cup trusted
    <3>1. f \in trusted
      BY <2>1 DEF CrmInv, IdsTracked
    <3> QED BY <2>1, <3>1 DEF Changes
  <2>2. \/ changed' = changed
        \/ \E f \in Forms : Changes(f) /\ stage[f] = "write"
    <3> USE DEF crmHistory
    <3>1. ASSUME NEW f \in Forms,
                 \/ Submit(f) \/ ReadRole(f) \/ MintSession(f)
                 \/ ResolveCustomer(f) \/ ResolveNote(f) \/ ResolveTag(f)
                 \/ ValidateAdmin(f) \/ LogAdminAudit(f) \/ EndForm(f)
          PROVE  changed' = changed
      BY <3>1 DEF Submit, ReadRole, MintSession, ResolveCustomer, ResolveNote, ResolveTag,
                  ValidateAdmin, LogAdminAudit, EndForm
    <3>2. ASSUME NEW f \in Forms,
                 \/ CreateNote(f) \/ DeleteNote(f) \/ AssignTag(f) \/ RemoveTag(f)
                 \/ CreateTag(f) \/ UpdateUser(f)
          PROVE  changed' = changed \/ (Changes(f) /\ stage[f] = "write")
      BY <3>2 DEF CreateNote, DeleteNote, AssignTag, RemoveTag, CreateTag, UpdateUser, Step
    <3>3. CASE \/ EraseCustomer \/ SignUpAnew \/ ProvisionHolder
               \/ LoseRole \/ SyncLostRole \/ Tick
      BY <3>3 DEF EraseCustomer, EraseHolder, SignUpAnew, ProvisionHolder, LoseRole,
                  SyncLostRole, Tick
    <3> QED BY <3>1, <3>2, <3>3 DEF CrmNext
  <2> QED BY <2>1, <2>2
<1> QED BY <1>1, CrmInvariant, PTL DEF CrmSpec, LostRoleBinds
=============================================================================
