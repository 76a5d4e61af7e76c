------------------------------- MODULE ApiKeys -------------------------------
(***************************************************************************)
(* One API key: its row, the guard's validation of calls that present it   *)
(* (which counts the use in the row), and the administrator's calls that   *)
(* update, revoke or delete it.  Each of them reads the row into an entity *)
(* and saves the entity after an await.  TypeORM's save reads the row      *)
(* again, writes the columns in which the entity differs from it, and      *)
(* inserts the entity when the row is gone.                                *)
(*                                                                         *)
(* Keys share no state, so one key stands for each of them.                *)
(***************************************************************************)
EXTENDS Naturals

CONSTANTS
    KeyCalls,   \* calls that may be under way together
    Origins,    \* what a call comes with besides the key: address, session, role
    NoRow,
    MaxUses     \* bound: validations of a behaviour

ASSUME KeyAssumption == MaxUses \in Nat

VARIABLES
    keyRow,     \* the row of the key
    keyCalls,   \* the calls
    uses        \* validations that went on to count (history)

keyVars == <<keyRow, keyCalls, uses>>

\* lets: the origins that allowedIps, allowedSessions and expiresAt admit; may:
\* those whose route asks for no higher role than the key's.
Keys == [active : BOOLEAN, lets : SUBSET Origins, may : SUBSET Origins, count : 0..MaxUses]

ASSUME RowAssumption == NoRow \notin Keys

KeyRows == Keys \cup {NoRow}

KeyPoints == {"idle", "searching", "finding", "saving", "writing", "removing",
              "admitted", "refused", "done"}

\* validateApiKey's checks of the row, and the guard's of the role.
Passes(row, origin) == row # NoRow /\ row.active /\ origin \in row.lets

Admits(row, origin) == Passes(row, origin) /\ origin \in row.may

\* entity, seen: the row as it was read, and as save has read it; open, shut:
\* the row would have admitted the call, or not, at some moment of it (history).
IdleCall(o) == [at |-> "idle", kind |-> "use", origin |-> o, entity |-> NoRow,
                seen |-> NoRow, open |-> FALSE, shut |-> FALSE]

KeysTypeOK ==
    /\ keyRow \in KeyRows
    /\ keyCalls \in [KeyCalls ->
            [at : KeyPoints, kind : {"use", "update", "revoke", "delete"},
             origin : Origins, entity : KeyRows, seen : KeyRows,
             open : BOOLEAN, shut : BOOLEAN]]
    /\ uses \in 0..MaxUses

\* The key as earlier calls have left it.
KeysInit ==
    /\ keyRow \in [active : BOOLEAN, lets : SUBSET Origins, may : SUBSET Origins, count : {0}]
    /\ \E o \in Origins : keyCalls = [c \in KeyCalls |-> IdleCall(o)]
    /\ uses = 0

Running == {"searching", "finding", "saving", "writing", "removing"}

\* calls with what the new row tells of those under way.
Observed(calls, row) ==
    [c \in KeyCalls |->
        IF calls[c].at \in Running
        THEN [calls[c] EXCEPT !.open = @ \/ Admits(row, calls[c].origin),
                              !.shut = @ \/ ~Admits(row, calls[c].origin)]
        ELSE calls[c]]

\* A step of call c, whose record becomes k, that leaves the row as given.
KeyStep(c, k, row) ==
    /\ keyRow' = row
    /\ keyCalls' = Observed([keyCalls EXCEPT ![c] = k], row)

-----------------------------------------------------------------------------
\* The guard

\* The key is in the request: validateApiKey looks its hash up.
UseCall(c, o) ==
    /\ keyCalls[c].at = "idle"
    /\ uses < MaxUses
    /\ KeyStep(c, [IdleCall(o) EXCEPT !.at = "searching"], keyRow)
    /\ UNCHANGED uses

\* Unknown, revoked, expired, or restricted to others: refused, and not counted.
SearchRefused(c) ==
    LET k == keyCalls[c] IN
    /\ k.at = "searching"
    /\ ~Passes(keyRow, k.origin)
    /\ KeyStep(c, [k EXCEPT !.at = "refused"], keyRow)
    /\ UNCHANGED uses

\* Otherwise the use is counted, in the entity.
Searched(c) ==
    LET k == keyCalls[c] IN
    /\ k.at = "searching" /\ uses < MaxUses
    /\ Passes(keyRow, k.origin)
    /\ KeyStep(c, [k EXCEPT !.at = "saving", !.entity = [keyRow EXCEPT !.count = @ + 1]], keyRow)
    /\ uses' = uses + 1

-----------------------------------------------------------------------------
\* The administrator

AdminCall(c, kind) ==
    /\ keyCalls[c].at = "idle"
    /\ KeyStep(c, [keyCalls[c] EXCEPT !.at = "finding", !.kind = kind], keyRow)
    /\ UNCHANGED uses

\* An update that makes a new entity, with the defaults of the other columns.
EditedAnew(row, lets, may) == [active |-> TRUE, lets |-> lets, may |-> may, count |-> 0]

\* updateApiKey's assignments: the columns of the settings, and no other.
Edited(row, lets, may) == [row EXCEPT !.lets = lets, !.may = may]

\* findOne, and what the call changes in the entity; 404 when there is none.
Found(c) ==
    LET k == keyCalls[c] IN
    /\ k.at = "finding"
    /\ UNCHANGED uses
    /\ \/ keyRow = NoRow /\ KeyStep(c, [k EXCEPT !.at = "done"], keyRow)
       \/ /\ keyRow # NoRow /\ k.kind = "revoke"
          /\ KeyStep(c, [k EXCEPT !.at = "saving", !.entity = [keyRow EXCEPT !.active = FALSE]],
                     keyRow)
       \/ /\ keyRow # NoRow /\ k.kind = "update"
          /\ \E lets, may \in SUBSET Origins :
                KeyStep(c, [k EXCEPT !.at = "saving", !.entity = Edited(keyRow, lets, may)], keyRow)
       \/ /\ keyRow # NoRow /\ k.kind = "delete"
          /\ KeyStep(c, [k EXCEPT !.at = "removing"], keyRow)

Removed(c) ==
    /\ keyCalls[c].at = "removing"
    /\ KeyStep(c, [keyCalls[c] EXCEPT !.at = "done"], NoRow)
    /\ UNCHANGED uses

-----------------------------------------------------------------------------
\* The save of an entity, and what follows it

KeySaveReads(c) ==
    /\ keyCalls[c].at = "saving"
    /\ KeyStep(c, [keyCalls[c] EXCEPT !.at = "writing", !.seen = keyRow], keyRow)
    /\ UNCHANGED uses

\* The row once the columns in which entity and seen differ are written to it:
\* nothing when it was deleted in between, the entity when it was gone before.
WrittenKey(row, seen, entity) ==
    CASE seen = NoRow -> entity
      [] seen # NoRow /\ row = NoRow -> NoRow
      [] OTHER -> [active |-> IF entity.active = seen.active THEN row.active ELSE entity.active,
                   lets |-> IF entity.lets = seen.lets THEN row.lets ELSE entity.lets,
                   may |-> IF entity.may = seen.may THEN row.may ELSE entity.may,
                   count |-> IF entity.count = seen.count THEN row.count ELSE entity.count]

\* A guard without the check of the role.
ConcludedUnchecked(k) ==
    [k EXCEPT !.entity = NoRow, !.seen = NoRow,
              !.at = IF k.kind # "use" THEN "done" ELSE "admitted"]

\* The role is checked after the use was counted, in the same entity.
Concluded(k) ==
    [k EXCEPT !.entity = NoRow, !.seen = NoRow,
              !.at = CASE k.kind # "use" -> "done"
                       [] k.kind = "use" /\ k.origin \in k.entity.may -> "admitted"
                       [] OTHER -> "refused"]

KeySaved(c) ==
    LET k == keyCalls[c] IN
    /\ k.at = "writing"
    /\ ~(k.seen = NoRow /\ keyRow # NoRow)
    /\ KeyStep(c, Concluded(k), WrittenKey(keyRow, k.seen, k.entity))
    /\ UNCHANGED uses

\* The database rejects a step of a call (as it does when two of them insert the
\* row): the call is answered with an error.
KeyCallFails(c) ==
    /\ keyCalls[c].at \in Running
    /\ KeyStep(c, [keyCalls[c] EXCEPT !.at = "done", !.entity = NoRow, !.seen = NoRow], keyRow)
    /\ UNCHANGED uses

\* A process starts: without any key a first one is seeded, an administrator's.
KeysRestart ==
    /\ keyCalls' = [c \in KeyCalls |->
            IF keyCalls[c].at \in Running
            THEN [keyCalls[c] EXCEPT !.at = "done", !.entity = NoRow, !.seen = NoRow]
            ELSE keyCalls[c]]
    /\ keyRow' = IF keyRow = NoRow
                 THEN [active |-> TRUE, lets |-> Origins, may |-> Origins, count |-> 0]
                 ELSE keyRow
    /\ UNCHANGED uses

UseSteps(c) ==
    \/ \E o \in Origins : UseCall(c, o)
    \/ SearchRefused(c) \/ Searched(c) \/ KeySaveReads(c) \/ KeySaved(c) \/ KeyCallFails(c)

AdminSteps(c) ==
    \/ \E kind \in {"update", "revoke", "delete"} : AdminCall(c, kind)
    \/ Found(c) \/ Removed(c)

KeysNext == \E c \in KeyCalls : UseSteps(c) \/ AdminSteps(c)

KeysSpec == KeysInit /\ [][KeysNext \/ KeysRestart]_keyVars

-----------------------------------------------------------------------------
\* Properties

Off(row) == row = NoRow \/ ~row.active

\* Somebody has the key in hand as it was before.
Held == \E c \in KeyCalls : keyCalls[c].entity # NoRow /\ keyCalls[c].entity.active

\* A key that is revoked or deleted stays so for good from the moment no call
\* holds the entity of before: whatever updates, validations and saves follow,
\* none brings an active entity or row back; only the seeding of a first key
\* when there is none does.
OffStaysOff ==
    [][Off(keyRow) /\ ~Held => (Off(keyRow') /\ ~Held') \/ KeysRestart]_keyVars

\* The answer of the guard is one the row justified at some moment between the
\* call and the answer, however its updates interleave.
AnswersAreCurrent ==
    \A c \in KeyCalls :
        /\ keyCalls[c].at = "admitted" => keyCalls[c].open
        /\ keyCalls[c].at = "refused" => keyCalls[c].shut

\* usageCount never runs ahead of the validations that passed (it may fall
\* behind, when two of them read the same count).
CountNotAhead ==
    /\ keyRow # NoRow => keyRow.count <= uses
    /\ \A c \in KeyCalls : keyCalls[c].entity # NoRow => keyCalls[c].entity.count <= uses
=============================================================================
