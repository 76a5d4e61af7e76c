------------------------- MODULE DataMigrationProofs -------------------------
(***************************************************************************)
(* Theorems about DataMigration, for any sets of sessions and messages.    *)
(***************************************************************************)
EXTENDS DataMigration, TLAPS

\* Rows of the file that the import has come to are in the transaction, unless
\* it was aborted.
Come ==
    ~tx.aborted =>
        /\ file.sessions \subseteq todo.sessions \cup tx.mine.sessions
        /\ file.webhooks \subseteq todo.webhooks \cup tx.mine.webhooks
        /\ \A m \in Messages : file.messages[m] # "none" =>
              todo.messages[m] # "none" \/ tx.mine.messages[m] # "none"

\* A loop is over when the next one begins.
Over ==
    /\ import \in {"insert webhooks", "insert messages", "commit"} => todo.sessions = {}
    /\ import \in {"insert messages", "commit"} => todo.webhooks = {}
    /\ import = "commit" => \A m \in Messages : todo.messages[m] = "none"

DInv ==
    /\ DataTypeOK
    /\ Importing => export = "done" /\ Come /\ Over

TxType == [aborted : BOOLEAN, gone : Rows, mine : Rows]

\* Empty tables and no transaction have their types.
LEMMA NoRowsOK == NoRows \in Rows /\ NoTx \in TxType
  BY DEF NoRows, Rows, Bodies, NoTx, TxType

\* The invariant holds at first.
LEMMA DataStart == DataInit => DInv
  BY NoRowsOK DEF DataInit, DInv, DataTypeOK, TxType, ExportPoints, ImportPoints, Importing

\* The gateway at work touches neither file nor import.
LEMMA WorksKeeps ==
    ASSUME DInv, Works, db' \in Rows
    PROVE  DInv'
  <1>1. UNCHANGED <<file, export, import, tx, todo, origin, glitch>> /\ quiet' = FALSE
    BY DEF Works
  <1> QED BY <1>1 DEF DInv, DataTypeOK, Importing, Come, Over

\* What the gateway writes to its tables keeps the invariant.
LEMMA GatewayKeeps ==
    ASSUME DInv,
           \/ \E s \in Sessions : CreateSession(s) \/ DeleteSession(s) \/ CreateWebhook(s)
           \/ \E m \in Messages, body \in {"text", "null"} : SaveMessage(m, body)
    PROVE  DInv'
  <1>0. db \in Rows BY DEF DInv, DataTypeOK
  <1>1. ASSUME NEW s \in Sessions, CreateSession(s) \/ DeleteSession(s) \/ CreateWebhook(s)
        PROVE  DInv'
    <2>1. db' \in Rows /\ Works
      BY <1>0, <1>1 DEF CreateSession, DeleteSession, CreateWebhook, Rows
    <2> QED BY <2>1, WorksKeeps
  <1>2. ASSUME NEW m \in Messages, NEW body \in {"text", "null"}, SaveMessage(m, body)
        PROVE  DInv'
    <2>1. db' \in Rows /\ Works
      BY <1>0, <1>2 DEF SaveMessage, Rows, Bodies
    <2> QED BY <2>1, WorksKeeps
  <1> QED BY <1>1, <1>2

\* Another database, or an export, only while no import runs.
LEMMA ExportsKeep ==
    ASSUME DInv, ChangeDatabase \/ ExportSessions \/ ExportWebhooks \/ ExportMessages
    PROVE  DInv'
  <1>1. CASE ChangeDatabase
    BY <1>1, NoRowsOK DEF ChangeDatabase, DInv, DataTypeOK, TxType, ImportPoints, Importing
  <1>2. CASE ExportSessions
    <2>1. [NoRows EXCEPT !.sessions = db.sessions] \in Rows
      BY NoRowsOK DEF DInv, DataTypeOK, Rows
    <2> QED BY <1>2, <2>1 DEF ExportSessions, DInv, DataTypeOK, ExportPoints, Importing
  <1>3. CASE ExportWebhooks
    <2>1. [file EXCEPT !.webhooks = db.webhooks] \in Rows BY DEF DInv, DataTypeOK, Rows
    <2> QED BY <1>3, <2>1 DEF ExportWebhooks, DInv, DataTypeOK, ExportPoints, Importing
  <1>4. CASE ExportMessages
    <2>1. [file EXCEPT !.messages = db.messages] \in Rows BY DEF DInv, DataTypeOK, Rows
    <2> QED BY <1>4, <2>1 DEF ExportMessages, DInv, DataTypeOK, ExportPoints, Importing
  <1> QED BY <1>1, <1>2, <1>3, <1>4

\* An import begins, deletes the rows, or gives up.
LEMMA DeletesKeep ==
    ASSUME DInv,
           \/ ImportBegins \/ DeleteWebhooks \/ DeleteMessages \/ DeleteSessions
           \/ ImportRejects
    PROVE  DInv'
  <1>0. /\ db \in Rows /\ file \in Rows /\ todo \in Rows /\ origin \in Rows /\ tx \in TxType
        /\ export \in ExportPoints /\ import \in ImportPoints
        /\ quiet \in BOOLEAN /\ glitch \in BOOLEAN
    BY DEF DInv, DataTypeOK, TxType
  <1>1. CASE ImportBegins
    <2>1. /\ import' = "delete webhooks" /\ export = "done" /\ tx' = NoTx /\ todo' = file
          /\ UNCHANGED <<db, file, export, origin, quiet, glitch>>
      BY <1>1 DEF ImportBegins
    <2>2. Come' /\ Over' BY <2>1 DEF Come, Over
    <2>3. DataTypeOK' BY <1>0, <2>1, NoRowsOK DEF DataTypeOK, TxType, ImportPoints
    <2> QED BY <2>1, <2>2, <2>3 DEF DInv
  <1>2. ASSUME NEW t \in TxType, tx' = t, t.mine = tx.mine, tx.aborted => t.aborted,
               import' \in {"delete messages", "delete sessions", "insert sessions"},
               Importing, glitch' \in BOOLEAN,
               UNCHANGED <<db, file, export, todo, origin, quiet>>
        PROVE  DInv'
    <2>1. Come' BY <1>2 DEF DInv, Come
    <2>2. Over' BY <1>2 DEF Over
    <2>3. DataTypeOK' BY <1>0, <1>2 DEF DataTypeOK, TxType, ImportPoints
    <2> QED BY <1>2, <2>1, <2>2, <2>3 DEF DInv
  <1>3. CASE DeleteWebhooks
    <2> DEFINE t == [tx EXCEPT !.gone.webhooks = db.webhooks]
    <2>1. t \in TxType /\ t.mine = tx.mine /\ t.aborted = tx.aborted
      BY <1>0 DEF TxType, Rows
    <2>2. tx' = t /\ Importing /\ import' = "delete messages" /\ glitch' = glitch
          /\ UNCHANGED <<db, file, export, todo, origin, quiet>>
      BY <1>3 DEF DeleteWebhooks, Importing
    <2> HIDE DEF t
    <2> QED BY <1>0, <1>2, <2>1, <2>2
  <1>4. CASE DeleteMessages
    <2>0. /\ Importing /\ import' = "delete sessions" /\ glitch' \in BOOLEAN
          /\ UNCHANGED <<db, file, export, todo, origin, quiet>>
          /\ \/ tx' = [tx EXCEPT !.gone.messages = db.messages]
             \/ tx' = [tx EXCEPT !.aborted = TRUE]
      BY <1>0, <1>4 DEF DeleteMessages, Importing
    <2>1. CASE tx' = [tx EXCEPT !.gone.messages = db.messages]
      <3> DEFINE t == [tx EXCEPT !.gone.messages = db.messages]
      <3>1. t \in TxType /\ t.mine = tx.mine /\ t.aborted = tx.aborted
        BY <1>0 DEF TxType, Rows
      <3>2. tx' = t BY <2>1
      <3> HIDE DEF t
      <3> QED BY <1>2, <2>0, <3>1, <3>2
    <2>2. CASE tx' = [tx EXCEPT !.aborted = TRUE]
      <3> DEFINE t == [tx EXCEPT !.aborted = TRUE]
      <3>1. t \in TxType /\ t.mine = tx.mine /\ t.aborted BY <1>0 DEF TxType
      <3>2. tx' = t BY <2>2
      <3> HIDE DEF t
      <3> QED BY <1>2, <2>0, <3>1, <3>2
    <2> QED BY <2>0, <2>1, <2>2
  <1>5. CASE DeleteSessions
    <2> DEFINE t == [tx EXCEPT !.gone.sessions = db.sessions, !.gone.webhooks = db.webhooks]
    <2>1. t \in TxType /\ t.mine = tx.mine /\ t.aborted = tx.aborted
      BY <1>0 DEF TxType, Rows
    <2>2. tx' = t /\ Importing /\ import' = "insert sessions" /\ glitch' = glitch
          /\ UNCHANGED <<db, file, export, todo, origin, quiet>>
      BY <1>5 DEF DeleteSessions, Importing
    <2> HIDE DEF t
    <2> QED BY <1>0, <1>2, <2>1, <2>2
  <1>6. CASE ImportRejects
    <2>1. /\ import' = "rejected" /\ tx' = NoTx /\ glitch' = TRUE
          /\ UNCHANGED <<db, file, export, todo, origin, quiet>>
      BY <1>6 DEF ImportRejects
    <2>2. DataTypeOK' BY <1>0, <2>1, NoRowsOK DEF DataTypeOK, TxType, ImportPoints
    <2> QED BY <2>1, <2>2 DEF DInv, Importing
  <1> QED BY <1>1, <1>3, <1>4, <1>5, <1>6

\* An INSERT takes its row from the list, and puts it into the transaction or
\* aborts that.
LEMMA InsertsKeep ==
    ASSUME DInv,
           \/ \E s \in Sessions : InsertSession(s) \/ InsertWebhook(s)
           \/ \E m \in Messages : InsertMessage(m)
    PROVE  DInv'
  <1>0. /\ db \in Rows /\ file \in Rows /\ todo \in Rows /\ origin \in Rows /\ tx \in TxType
        /\ export \in ExportPoints /\ import \in ImportPoints
        /\ quiet \in BOOLEAN /\ glitch \in BOOLEAN
    BY DEF DInv, DataTypeOK, TxType
  <1>1. ASSUME NEW holds \in BOOLEAN, NEW inserted \in TxType, NEW rest \in Rows,
               Tries(holds, inserted, rest), Importing, Over,
               rest.sessions \subseteq todo.sessions, rest.webhooks \subseteq todo.webhooks,
               \A m \in Messages : todo.messages[m] = "none" => rest.messages[m] = "none",
               ~inserted.aborted =>
                  /\ file.sessions \subseteq rest.sessions \cup inserted.mine.sessions
                  /\ file.webhooks \subseteq rest.webhooks \cup inserted.mine.webhooks
                  /\ \A m \in Messages : file.messages[m] # "none" =>
                        rest.messages[m] # "none" \/ inserted.mine.messages[m] # "none"
        PROVE  DInv'
    <2>1. /\ todo' = rest /\ glitch' \in BOOLEAN
          /\ UNCHANGED <<db, file, export, import, origin, quiet>>
          /\ tx' = inserted \/ tx' = [tx EXCEPT !.aborted = TRUE]
      BY <1>0, <1>1 DEF Tries
    <2>2. tx' \in TxType /\ (tx' = inserted \/ tx'.aborted) BY <1>0, <2>1 DEF TxType
    <2>3. Come' BY <1>1, <2>1, <2>2 DEF Come
    <2>4. Over' BY <1>1, <2>1 DEF Over
    <2>5. DataTypeOK' BY <1>0, <1>1, <2>1, <2>2 DEF DataTypeOK, TxType
    <2>6. export' = "done" BY <1>1, <2>1 DEF DInv
    <2> QED BY <2>3, <2>4, <2>5, <2>6 DEF DInv
  <1>2. ASSUME Importing PROVE Come /\ Over BY <1>2 DEF DInv
  <1>3. ASSUME NEW s \in Sessions, InsertSession(s) PROVE DInv'
    <2> DEFINE inserted == [tx EXCEPT !.mine.sessions = @ \cup {s}]
               rest == [todo EXCEPT !.sessions = @ \ {s}]
               holds == s \notin db.sessions \/ s \in tx.gone.sessions
    <2>1. Tries(holds, inserted, rest) /\ Importing
      BY <1>3 DEF InsertSession, Importing
    <2>2. /\ inserted \in TxType /\ inserted.aborted = tx.aborted
          /\ inserted.mine.sessions = tx.mine.sessions \cup {s}
          /\ inserted.mine.webhooks = tx.mine.webhooks
          /\ inserted.mine.messages = tx.mine.messages
      BY <1>0 DEF TxType, Rows
    <2>3. /\ rest \in Rows /\ rest.sessions = todo.sessions \ {s}
          /\ rest.webhooks = todo.webhooks /\ rest.messages = todo.messages
      BY <1>0 DEF Rows
    <2>4. holds \in BOOLEAN OBVIOUS
    <2> HIDE DEF inserted, rest, holds
    <2> QED BY <1>1, <1>2, <2>1, <2>2, <2>3, <2>4 DEF Come
  <1>4. ASSUME NEW s \in Sessions, InsertWebhook(s) PROVE DInv'
    <2> DEFINE inserted == [tx EXCEPT !.mine.webhooks = @ \cup {s}]
               rest == [todo EXCEPT !.webhooks = @ \ {s}]
               holds == s \in tx.mine.sessions \/ s \in db.sessions \ tx.gone.sessions
    <2>1. Tries(holds, inserted, rest) /\ Importing
      BY <1>4 DEF InsertWebhook, Importing
    <2>2. /\ inserted \in TxType /\ inserted.aborted = tx.aborted
          /\ inserted.mine.sessions = tx.mine.sessions
          /\ inserted.mine.webhooks = tx.mine.webhooks \cup {s}
          /\ inserted.mine.messages = tx.mine.messages
      BY <1>0 DEF TxType, Rows
    <2>3. /\ rest \in Rows /\ rest.sessions = todo.sessions
          /\ rest.webhooks = todo.webhooks \ {s} /\ rest.messages = todo.messages
      BY <1>0 DEF Rows
    <2>4. holds \in BOOLEAN OBVIOUS
    <2> HIDE DEF inserted, rest, holds
    <2> QED BY <1>1, <1>2, <2>1, <2>2, <2>3, <2>4 DEF Come
  <1>5. ASSUME NEW m \in Messages, InsertMessage(m) PROVE DInv'
    <2> DEFINE body == IF todo.messages[m] = "null" THEN "object" ELSE todo.messages[m]
               inserted == [tx EXCEPT !.mine.messages[m] = body]
               rest == [todo EXCEPT !.messages[m] = "none"]
               holds == db.messages[m] = "none" \/ tx.gone.messages[m] # "none"
    <2>1. Tries(holds, inserted, rest) /\ Importing /\ todo.messages[m] # "none"
      BY <1>5 DEF InsertMessage, Importing
    <2>b. body \in Bodies /\ body # "none" BY <1>0, <2>1 DEF Rows, Bodies
    <2> HIDE DEF body
    <2>2. /\ inserted \in TxType /\ inserted.aborted = tx.aborted
          /\ inserted.mine.sessions = tx.mine.sessions
          /\ inserted.mine.webhooks = tx.mine.webhooks
          /\ inserted.mine.messages = [tx.mine.messages EXCEPT ![m] = body]
      BY <1>0, <2>b DEF TxType, Rows
    <2>3. /\ rest \in Rows /\ rest.sessions = todo.sessions
          /\ rest.webhooks = todo.webhooks
          /\ rest.messages = [todo.messages EXCEPT ![m] = "none"]
      BY <1>0 DEF Rows, Bodies
    <2>4. holds \in BOOLEAN OBVIOUS
    <2>5. todo.messages \in [Messages -> Bodies] /\ tx.mine.messages \in [Messages -> Bodies]
      BY <1>0 DEF TxType, Rows
    <2> HIDE DEF inserted, rest, holds
    <2>6. \A k \in Messages : todo.messages[k] = "none" => rest.messages[k] = "none"
      BY <2>3, <2>5
    <2>7. \A k \in Messages : todo.messages[k] # "none" \/ tx.mine.messages[k] # "none" =>
            rest.messages[k] # "none" \/ inserted.mine.messages[k] # "none"
      BY <2>b, <2>2, <2>3, <2>5
    <2>8. ~inserted.aborted =>
            /\ file.sessions \subseteq rest.sessions \cup inserted.mine.sessions
            /\ file.webhooks \subseteq rest.webhooks \cup inserted.mine.webhooks
            /\ \A k \in Messages : file.messages[k] # "none" =>
                  rest.messages[k] # "none" \/ inserted.mine.messages[k] # "none"
      BY <1>2, <2>1, <2>2, <2>3, <2>7 DEF Come
    <2>9. rest.sessions \subseteq todo.sessions /\ rest.webhooks \subseteq todo.webhooks
      BY <2>3
    <2>10. Over BY <1>2, <2>1
    <2> QED BY <1>1, <2>1, <2>2, <2>3, <2>4, <2>6, <2>8, <2>9, <2>10
  <1> QED BY <1>3, <1>4, <1>5

\* A loop ends.
LEMMA TableDoneKeeps == ASSUME DInv, TableDone PROVE DInv'
  <1>1. /\ Importing /\ UNCHANGED <<db, file, export, tx, todo, origin, quiet, glitch>>
        /\ import' \in {"insert webhooks", "insert messages", "commit"}
    BY DEF TableDone, Importing
  <1>2. Come' BY <1>1 DEF DInv, Come
  <1>3. Over' BY <1>1 DEF DInv, Over, TableDone, Stored
  <1>4. DataTypeOK' BY <1>1 DEF DInv, DataTypeOK, ImportPoints
  <1>5. export' = "done" BY <1>1 DEF DInv
  <1> QED BY <1>2, <1>3, <1>4, <1>5 DEF DInv

\* The file, as tables that replace the others, is well typed.
LEMMA ReplacedOK == ASSUME DInv PROVE Replaced \in Rows
  <1>1. db \in Rows /\ tx \in TxType BY DEF DInv, DataTypeOK, TxType
  <1>2. \A m \in Messages : Replaced.messages[m] \in Bodies
    BY <1>1 DEF Replaced, TxType, Rows, Bodies
  <1> QED BY <1>1, <1>2 DEF Replaced, TxType, Rows

\* The end of an import, and of the process.
LEMMA CommitKeeps == ASSUME DInv, Commit \/ DataRestart PROVE DInv'
  <1>1. CASE Commit
    <2>1. db' \in Rows BY <1>1, ReplacedOK DEF Commit, DInv, DataTypeOK
    <2> QED BY <1>1, <2>1, NoRowsOK
      DEF Commit, DInv, DataTypeOK, TxType, ImportPoints, Importing
  <1>2. CASE DataRestart
    BY <1>2, NoRowsOK DEF DataRestart, DInv, DataTypeOK, TxType, ImportPoints, ExportPoints,
       Importing
  <1> QED BY <1>1, <1>2

\* Every step keeps the invariant.
LEMMA DataKept == DInv /\ [DataNext \/ DataRestart]_dataVars => DInv'
  <1> SUFFICES ASSUME DInv, [DataNext \/ DataRestart]_dataVars PROVE DInv' OBVIOUS
  <1>1. CASE DataNext
    BY <1>1, GatewayKeeps, ExportsKeep, DeletesKeep, InsertsKeep, TableDoneKeeps, CommitKeeps
    DEF DataNext
  <1>2. CASE DataRestart BY <1>2, CommitKeeps
  <1>3. CASE UNCHANGED dataVars
    BY <1>3 DEF dataVars, DInv, DataTypeOK, Importing, Come, Over
  <1> QED BY <1>1, <1>2, <1>3

\* The invariant holds of every state.
LEMMA DataAlways == DataSpec => []DInv
  BY DataStart, DataKept, PTL DEF DataSpec

\* The types of the tables, the file, the export and the import.
THEOREM DataTypes == DataSpec => []DataTypeOK
  <1>1. DInv => DataTypeOK BY DEF DInv
  <1> QED BY <1>1, DataAlways, PTL

\* An import that changes the tables has put every row of the file into them.
THEOREM ImportAllOrNothing == DataSpec => AllOrNothing
  <1>1. ASSUME DInv, [DataNext \/ DataRestart]_dataVars,
               import = "commit" /\ import' = "imported" /\ db' # db
        PROVE  Holds(db', file)
    <2>1. Commit
      BY <1>1 DEF DataNext, DataRestart, dataVars, Works, CreateSession, DeleteSession,
         CreateWebhook, SaveMessage, InsertSession, InsertWebhook, InsertMessage, ChangeDatabase,
         ExportSessions, ExportWebhooks, ExportMessages, ImportBegins, DeleteWebhooks,
         DeleteMessages, DeleteSessions, TableDone, ImportRejects, Importing
    <2>2. ~tx.aborted /\ db' = Replaced BY <1>1, <2>1 DEF Commit
    <2>3. Come /\ Over BY <1>1 DEF DInv, Importing
    <2>4. /\ todo.sessions = {} /\ todo.webhooks = {}
          /\ \A m \in Messages : todo.messages[m] = "none"
      BY <1>1, <2>3 DEF Over
    <2>5. /\ file.sessions \subseteq tx.mine.sessions
          /\ file.webhooks \subseteq tx.mine.webhooks
          /\ \A m \in Messages : file.messages[m] # "none" => tx.mine.messages[m] # "none"
      BY <2>2, <2>3, <2>4 DEF Come
    <2>6. Stored(file) \subseteq Stored(Replaced) BY <2>5 DEF Stored, Replaced
    <2> QED BY <2>2, <2>5, <2>6 DEF Holds, Replaced
  <1>2. DInv /\ [DataNext \/ DataRestart]_dataVars =>
          [import = "commit" /\ import' = "imported" /\ db' # db => Holds(db', file)]_dataVars
    BY <1>1
  <1> QED BY <1>2, DataAlways, PTL DEF DataSpec, AllOrNothing
-----------------------------------------------------------------------------
(***************************************************************************)
(* The way there and back.  The order of the tables is right because no    *)
(* webhook is ever without its session, in the tables, in what the export  *)
(* found and in the transaction; that holds whoever writes.  From there,   *)
(* with nobody writing and no query failing, the file follows the tables   *)
(* it was read from, and the transaction follows the file.                 *)
(***************************************************************************)

References ==
    /\ db.webhooks \subseteq db.sessions
    /\ origin.webhooks \subseteq origin.sessions
    /\ db.webhooks \cap tx.gone.sessions \subseteq tx.gone.webhooks
    /\ tx.mine.webhooks \subseteq tx.mine.sessions \cup (db.sessions \ tx.gone.sessions)
    /\ import \in {"delete webhooks", "delete messages", "delete sessions"} => tx.mine = NoRows

\* What a body is in the tables once it has been imported.
Written(body) == IF body = "null" THEN "object" ELSE body

\* How far the export is.
Exported ==
    /\ export \in {"webhooks", "messages"} => db = origin
    /\ export = "webhooks" => file = [NoRows EXCEPT !.sessions = origin.sessions]
    /\ export = "messages" => file = [origin EXCEPT !.messages = NoRows.messages]
    /\ export = "done" => file = origin

\* A message of the file is still to come, or is as the transaction writes it.
Moved(m) ==
    \/ todo.messages[m] = file.messages[m] /\ tx.mine.messages[m] = "none"
    \/ todo.messages[m] = "none" /\ tx.mine.messages[m] = Written(file.messages[m])

\* How far the import is.
Progress ==
    /\ ~tx.aborted
    /\ file.sessions = todo.sessions \cup tx.mine.sessions
    /\ file.webhooks = todo.webhooks \cup tx.mine.webhooks
    /\ \A m \in Messages : Moved(m)
    /\ import = "delete sessions" => tx.gone.messages = db.messages
    /\ import \in {"insert sessions", "insert webhooks", "insert messages", "commit"} =>
          tx.gone = db

Faithful == quiet /\ ~glitch => Exported /\ (Importing => Progress)

\* An empty table has no rows.
LEMMA NoRowsEmpty ==
    /\ NoRows.sessions = {} /\ NoRows.webhooks = {}
    /\ NoRows.messages = [m \in Messages |-> "none"]
    /\ NoTx.gone = NoRows /\ NoTx.mine = NoRows /\ NoTx.aborted = FALSE
  BY DEF NoRows, NoTx

\* Tables with the same rows are the same.
LEMMA SameRows ==
    ASSUME NEW a \in Rows, NEW b \in Rows, a.sessions = b.sessions, a.webhooks = b.webhooks,
           a.messages = b.messages
    PROVE  a = b
  BY DEF Rows

\* The gateway at work leaves no webhook without its session, and takes none
\* away from a webhook that the transaction deletes or inserts.
LEMMA GatewayReferences ==
    ASSUME DInv, References,
           \/ \E s \in Sessions : CreateSession(s) \/ DeleteSession(s) \/ CreateWebhook(s)
           \/ \E m \in Messages, body \in {"text", "null"} : SaveMessage(m, body)
    PROVE  References' /\ Faithful'
  <1>0. db \in Rows BY DEF DInv, DataTypeOK
  <1>1. Works
    BY DEF CreateSession, DeleteSession, CreateWebhook, SaveMessage
  <1>2. Faithful' BY <1>1 DEF Works, Faithful
  <1>3. UNCHANGED <<tx, import, origin>> BY <1>1 DEF Works
  <1>4. ASSUME NEW s \in Sessions, CreateSession(s) PROVE References'
    <2>1. db'.sessions = db.sessions \cup {s} /\ db'.webhooks = db.webhooks
      BY <1>0, <1>4 DEF CreateSession, Rows
    <2> QED BY <1>3, <2>1 DEF References
  <1>5. ASSUME NEW s \in Sessions, DeleteSession(s) PROVE References'
    <2>1. db'.sessions = db.sessions \ {s} /\ db'.webhooks = db.webhooks \ {s}
      BY <1>0, <1>5 DEF DeleteSession, Rows
    <2>2. s \notin tx.mine.webhooks BY <1>5 DEF DeleteSession
    <2> QED BY <1>3, <2>1, <2>2 DEF References
  <1>6. ASSUME NEW s \in Sessions, CreateWebhook(s) PROVE References'
    <2>1. db'.sessions = db.sessions /\ db'.webhooks = db.webhooks \cup {s}
      BY <1>0, <1>6 DEF CreateWebhook, Rows
    <2>2. s \in db.sessions \ tx.gone.sessions BY <1>6 DEF CreateWebhook
    <2> QED BY <1>3, <2>1, <2>2 DEF References
  <1>7. ASSUME NEW m \in Messages, NEW body \in {"text", "null"}, SaveMessage(m, body)
        PROVE  References'
    <2>1. db'.sessions = db.sessions /\ db'.webhooks = db.webhooks
      BY <1>0, <1>7 DEF SaveMessage, Rows
    <2> QED BY <1>3, <2>1 DEF References
  <1> QED BY <1>2, <1>4, <1>5, <1>6, <1>7

\* Every table is read into its place.
LEMMA ExportFaithful ==
    ASSUME DInv, References, Faithful,
           ChangeDatabase \/ ExportSessions \/ ExportWebhooks \/ ExportMessages
    PROVE  References' /\ Faithful'
  <1>0. /\ db \in Rows /\ file \in Rows /\ origin \in Rows /\ export \in ExportPoints
        /\ NoRows \in Rows /\ quiet \in BOOLEAN /\ glitch \in BOOLEAN
    BY NoRowsOK DEF DInv, DataTypeOK
  <1>1. CASE ChangeDatabase
    <2>1. /\ db' = NoRows /\ import' = "idle" /\ tx' = NoTx /\ export = "done"
          /\ UNCHANGED <<file, export, origin, quiet, glitch>>
      BY <1>1 DEF ChangeDatabase
    <2>2. References' BY <2>1, NoRowsEmpty DEF References
    <2>3. Faithful' BY <2>1 DEF Faithful, Exported, Importing
    <2> QED BY <2>2, <2>3
  <1>2. CASE ExportSessions
    <2>1. /\ file' = [NoRows EXCEPT !.sessions = db.sessions] /\ export' = "webhooks"
          /\ origin' = db /\ ~Importing /\ UNCHANGED <<db, import, tx, todo>>
      BY <1>2 DEF ExportSessions
    <2>2. References' BY <2>1 DEF References
    <2>3. Faithful' BY <2>1 DEF Faithful, Exported, Importing
    <2> QED BY <2>2, <2>3
  <1>3. CASE ExportWebhooks
    <2>1. /\ export = "webhooks" /\ file' = [file EXCEPT !.webhooks = db.webhooks]
          /\ export' = "messages" /\ UNCHANGED <<db, import, tx, todo, origin, quiet, glitch>>
      BY <1>3 DEF ExportWebhooks
    <2>2. References' BY <2>1 DEF References
    <2>3. ~Importing BY <2>1 DEF DInv
    <2>4. ASSUME quiet, ~glitch PROVE file' = [origin EXCEPT !.messages = NoRows.messages]
      <3>1. db = origin /\ file = [NoRows EXCEPT !.sessions = origin.sessions]
        BY <2>1, <2>4 DEF Faithful, Exported
      <3> QED BY <1>0, <2>1, <3>1 DEF Rows
    <2>5. quiet /\ ~glitch => db = origin BY <2>1 DEF Faithful, Exported
    <2>6. Faithful' BY <2>1, <2>3, <2>4, <2>5 DEF Faithful, Exported, Importing
    <2> QED BY <2>2, <2>6
  <1>4. CASE ExportMessages
    <2>1. /\ export = "messages" /\ export' = "done"
          /\ \/ glitch'
             \/ file' = [file EXCEPT !.messages = db.messages] /\ glitch' = glitch
          /\ UNCHANGED <<db, import, tx, todo, origin, quiet>>
      BY <1>4 DEF ExportMessages
    <2>2. References' BY <2>1 DEF References
    <2>3. ~Importing BY <2>1 DEF DInv
    <2>4. ASSUME quiet, ~glitch, ~glitch' PROVE file' = origin
      <3>1. db = origin /\ file = [origin EXCEPT !.messages = NoRows.messages]
        BY <2>1, <2>4 DEF Faithful, Exported
      <3> QED BY <1>0, <2>1, <2>4, <3>1 DEF Rows
    <2>5. glitch => glitch' BY <2>1
    <2>6. Faithful' BY <2>1, <2>3, <2>4, <2>5 DEF Faithful, Exported, Importing
    <2> QED BY <2>2, <2>6
  <1> QED BY <1>1, <1>2, <1>3, <1>4

\* The rows that were there are marked as gone, every one of them by the time
\* the first of the file's is inserted.
LEMMA DeletesFaithful ==
    ASSUME DInv, References, Faithful,
           \/ ImportBegins \/ DeleteWebhooks \/ DeleteMessages \/ DeleteSessions
           \/ ImportRejects
    PROVE  References' /\ Faithful'
  <1>0. /\ db \in Rows /\ file \in Rows /\ todo \in Rows /\ tx \in TxType
        /\ quiet \in BOOLEAN /\ glitch \in BOOLEAN
    BY DEF DInv, DataTypeOK, TxType
  <1>1. CASE ImportBegins
    <2>1. /\ import' = "delete webhooks" /\ tx' = NoTx /\ todo' = file
          /\ UNCHANGED <<db, file, export, origin, quiet, glitch>>
      BY <1>1 DEF ImportBegins
    <2>2. References' BY <2>1, NoRowsEmpty DEF References
    <2>3. Exported' <=> Exported BY <2>1 DEF Exported
    <2>4. Progress' BY <2>1, NoRowsEmpty DEF Progress, Moved
    <2>5. Faithful' BY <2>1, <2>3, <2>4 DEF Faithful
    <2> QED BY <2>2, <2>5
  <1>2. ASSUME NEW gone \in Rows, tx' = [tx EXCEPT !.gone = gone], Importing,
               import \in {"delete webhooks", "delete messages", "delete sessions"},
               import' \in {"delete messages", "delete sessions", "insert sessions"},
               UNCHANGED <<db, file, export, todo, origin, quiet, glitch>>,
               db.webhooks \cap gone.sessions \subseteq gone.webhooks,
               quiet /\ ~glitch /\ Progress =>
                  /\ import' = "delete sessions" => gone.messages = db.messages
                  /\ import' = "insert sessions" => gone = db
        PROVE  References' /\ Faithful'
    <2>1. tx'.gone = gone /\ tx'.mine = tx.mine /\ tx'.aborted = tx.aborted
      BY <1>0, <1>2 DEF TxType
    <2>2. tx.mine = NoRows BY <1>2 DEF References
    <2>3. References' BY <1>2, <2>1, <2>2, NoRowsEmpty DEF References
    <2>4. Exported' <=> Exported BY <1>2 DEF Exported
    <2>5. quiet /\ ~glitch /\ Progress => Progress'
      BY <1>2, <2>1 DEF Progress, Moved
    <2>6. Faithful' BY <1>2, <2>4, <2>5 DEF Faithful
    <2> QED BY <2>3, <2>6
  <1>3. CASE DeleteWebhooks
    <2> DEFINE gone == [tx.gone EXCEPT !.webhooks = db.webhooks]
    <2>1. gone \in Rows /\ gone.webhooks = db.webhooks BY <1>0 DEF TxType, Rows
    <2>2. tx' = [tx EXCEPT !.gone = gone]
      BY <1>0, <1>3 DEF DeleteWebhooks, TxType
    <2>3. /\ import = "delete webhooks" /\ import' = "delete messages" /\ Importing
          /\ UNCHANGED <<db, file, export, todo, origin, quiet, glitch>>
      BY <1>3 DEF DeleteWebhooks, Importing
    <2> HIDE DEF gone
    <2> QED BY <1>2, <2>1, <2>2, <2>3
  <1>4. CASE DeleteMessages
    <2>0. /\ import = "delete messages" /\ import' = "delete sessions" /\ Importing
          /\ UNCHANGED <<db, file, export, todo, origin, quiet>>
          /\ \/ tx' = [tx EXCEPT !.gone.messages = db.messages] /\ glitch' = glitch
             \/ tx' = [tx EXCEPT !.aborted = TRUE] /\ glitch'
      BY <1>4 DEF DeleteMessages, Importing
    <2>1. CASE tx' = [tx EXCEPT !.gone.messages = db.messages] /\ glitch' = glitch
      <3> DEFINE gone == [tx.gone EXCEPT !.messages = db.messages]
      <3>1. /\ gone \in Rows /\ gone.messages = db.messages
            /\ gone.sessions = tx.gone.sessions /\ gone.webhooks = tx.gone.webhooks
        BY <1>0 DEF TxType, Rows
      <3>2. tx' = [tx EXCEPT !.gone = gone] BY <1>0, <2>1 DEF TxType
      <3>3. db.webhooks \cap gone.sessions \subseteq gone.webhooks
        BY <3>1 DEF References
      <3> HIDE DEF gone
      <3> QED BY <1>2, <2>0, <2>1, <3>1, <3>2, <3>3
    <2>2. CASE tx' = [tx EXCEPT !.aborted = TRUE] /\ glitch'
      <3>1. tx'.gone = tx.gone /\ tx'.mine = tx.mine BY <1>0, <2>2 DEF TxType
      <3>2. tx.mine = NoRows BY <2>0 DEF References
      <3>3. References' BY <2>0, <3>1, <3>2, NoRowsEmpty DEF References
      <3> QED BY <2>2, <3>3 DEF Faithful
    <2> QED BY <2>0, <2>1, <2>2
  <1>5. CASE DeleteSessions
    <2> DEFINE gone == [tx.gone EXCEPT !.sessions = db.sessions, !.webhooks = db.webhooks]
    <2>1. /\ gone \in Rows /\ gone.webhooks = db.webhooks /\ gone.sessions = db.sessions
          /\ gone.messages = tx.gone.messages
      BY <1>0 DEF TxType, Rows
    <2>2. tx' = [tx EXCEPT !.gone = gone]
      BY <1>0, <1>5 DEF DeleteSessions, TxType
    <2>3. /\ import = "delete sessions" /\ import' = "insert sessions" /\ Importing
          /\ UNCHANGED <<db, file, export, todo, origin, quiet, glitch>>
      BY <1>5 DEF DeleteSessions, Importing
    <2> HIDE DEF gone
    <2>4. Progress => gone = db
      BY <1>0, <2>1, <2>3, SameRows DEF Progress
    <2> QED BY <1>2, <2>1, <2>2, <2>3, <2>4
  <1>6. CASE ImportRejects
    <2>1. /\ import' = "rejected" /\ tx' = NoTx /\ glitch' = TRUE
          /\ UNCHANGED <<db, file, export, todo, origin, quiet>>
      BY <1>6 DEF ImportRejects
    <2>2. References' BY <2>1, NoRowsEmpty DEF References
    <2> QED BY <2>1, <2>2 DEF Faithful
  <1> QED BY <1>1, <1>3, <1>4, <1>5, <1>6


\* With nobody writing and no query failing, an INSERT finds its constraints
\* satisfied, and moves its row from the file into the transaction.
LEMMA InsertsFaithful ==
    ASSUME DInv, References, Faithful,
           \/ \E s \in Sessions : InsertSession(s) \/ InsertWebhook(s)
           \/ \E m \in Messages : InsertMessage(m)
    PROVE  References' /\ Faithful'
  <1>0. /\ db \in Rows /\ file \in Rows /\ todo \in Rows /\ origin \in Rows /\ tx \in TxType
        /\ quiet \in BOOLEAN /\ glitch \in BOOLEAN
    BY DEF DInv, DataTypeOK, TxType
  <1>1. ASSUME NEW holds \in BOOLEAN, NEW inserted \in TxType, NEW rest \in Rows,
               Tries(holds, inserted, rest), Importing,
               import \in {"insert sessions", "insert webhooks", "insert messages"},
               inserted.gone = tx.gone, inserted.aborted = tx.aborted,
               holds =>
                 inserted.mine.webhooks \subseteq
                    inserted.mine.sessions \cup (db.sessions \ tx.gone.sessions),
               quiet /\ ~glitch /\ Exported /\ Progress =>
                  /\ holds
                  /\ file.sessions = rest.sessions \cup inserted.mine.sessions
                  /\ file.webhooks = rest.webhooks \cup inserted.mine.webhooks
                  /\ \A m \in Messages :
                        \/ /\ rest.messages[m] = file.messages[m]
                           /\ inserted.mine.messages[m] = "none"
                        \/ /\ rest.messages[m] = "none"
                           /\ inserted.mine.messages[m] = Written(file.messages[m])
        PROVE  References' /\ Faithful'
    <2>1. /\ todo' = rest /\ UNCHANGED <<db, file, export, import, origin, quiet>>
          /\ \/ holds /\ ~tx.aborted /\ tx' = inserted /\ glitch' = glitch
             \/ tx' = [tx EXCEPT !.aborted = TRUE] /\ glitch' = (glitch \/ (holds /\ ~tx.aborted))
      BY <1>1 DEF Tries
    <2>2. CASE holds /\ ~tx.aborted /\ tx' = inserted /\ glitch' = glitch
      <3>1. References' BY <1>1, <2>1, <2>2 DEF References
      <3>2. Exported' <=> Exported BY <2>1 DEF Exported
      <3>3. quiet /\ ~glitch /\ Exported /\ Progress => Progress'
        BY <1>1, <2>1, <2>2 DEF Progress, Moved
      <3> QED BY <1>1, <2>1, <2>2, <3>1, <3>2, <3>3 DEF Faithful
    <2>3. CASE tx' = [tx EXCEPT !.aborted = TRUE] /\ glitch' = (glitch \/ (holds /\ ~tx.aborted))
      <3>1. tx'.gone = tx.gone /\ tx'.mine = tx.mine BY <1>0, <2>3 DEF TxType
      <3>2. References' BY <2>1, <3>1 DEF References
      <3>3. quiet /\ ~glitch => glitch'
        BY <1>1, <2>3 DEF Faithful, Progress
      <3> QED BY <2>1, <2>3, <3>2, <3>3 DEF Faithful
    <2> QED BY <2>1, <2>2, <2>3
  <1>2. ASSUME NEW s \in Sessions, InsertSession(s) PROVE References' /\ Faithful'
    <2> DEFINE inserted == [tx EXCEPT !.mine.sessions = @ \cup {s}]
               rest == [todo EXCEPT !.sessions = @ \ {s}]
               holds == s \notin db.sessions \/ s \in tx.gone.sessions
    <2>1. /\ Tries(holds, inserted, rest) /\ Importing /\ import = "insert sessions"
          /\ s \in todo.sessions
      BY <1>2 DEF InsertSession, Importing
    <2>2. /\ inserted \in TxType /\ inserted.aborted = tx.aborted /\ inserted.gone = tx.gone
          /\ inserted.mine.sessions = tx.mine.sessions \cup {s}
          /\ inserted.mine.webhooks = tx.mine.webhooks
          /\ inserted.mine.messages = tx.mine.messages
      BY <1>0 DEF TxType, Rows
    <2>3. /\ rest \in Rows /\ rest.sessions = todo.sessions \ {s}
          /\ rest.webhooks = todo.webhooks /\ rest.messages = todo.messages
      BY <1>0 DEF Rows
    <2>4. Progress => holds BY <2>1 DEF Progress
    <2>5. holds \in BOOLEAN OBVIOUS
    <2>6. tx.mine.webhooks \subseteq
            (tx.mine.sessions \cup {s}) \cup (db.sessions \ tx.gone.sessions)
      BY DEF References
    <2> HIDE DEF inserted, rest, holds
    <2>7. Progress =>
            /\ file.sessions = rest.sessions \cup inserted.mine.sessions
            /\ file.webhooks = rest.webhooks \cup inserted.mine.webhooks
      BY <2>1, <2>2, <2>3 DEF Progress
    <2> QED BY <1>1, <2>1, <2>2, <2>3, <2>4, <2>5, <2>6, <2>7 DEF Progress, Moved
  <1>3. ASSUME NEW s \in Sessions, InsertWebhook(s) PROVE References' /\ Faithful'
    <2> DEFINE inserted == [tx EXCEPT !.mine.webhooks = @ \cup {s}]
               rest == [todo EXCEPT !.webhooks = @ \ {s}]
               holds == s \in tx.mine.sessions \/ s \in db.sessions \ tx.gone.sessions
    <2>1. /\ Tries(holds, inserted, rest) /\ Importing /\ import = "insert webhooks"
          /\ s \in todo.webhooks
      BY <1>3 DEF InsertWebhook, Importing
    <2>2. /\ inserted \in TxType /\ inserted.aborted = tx.aborted /\ inserted.gone = tx.gone
          /\ inserted.mine.sessions = tx.mine.sessions
          /\ inserted.mine.webhooks = tx.mine.webhooks \cup {s}
          /\ inserted.mine.messages = tx.mine.messages
      BY <1>0 DEF TxType, Rows
    <2>3. /\ rest \in Rows /\ rest.sessions = todo.sessions
          /\ rest.webhooks = todo.webhooks \ {s} /\ rest.messages = todo.messages
      BY <1>0 DEF Rows
    <2>4. Progress /\ Exported => s \in tx.mine.sessions
      <3>1. todo.sessions = {} /\ export = "done"
        BY <2>1 DEF DInv, Over
      <3>2. Progress /\ Exported => s \in origin.webhooks
        BY <2>1, <3>1 DEF Progress, Exported
      <3>3. Progress /\ Exported => tx.mine.sessions = origin.sessions
        BY <3>1 DEF Progress, Exported
      <3> QED BY <3>2, <3>3 DEF References
    <2>5. holds \in BOOLEAN OBVIOUS
    <2>6. holds => tx.mine.webhooks \cup {s} \subseteq
            tx.mine.sessions \cup (db.sessions \ tx.gone.sessions)
      BY DEF References
    <2>7. Progress /\ Exported => holds BY <2>4
    <2> HIDE DEF inserted, rest, holds
    <2>8. Progress =>
            /\ file.sessions = rest.sessions \cup inserted.mine.sessions
            /\ file.webhooks = rest.webhooks \cup inserted.mine.webhooks
      BY <2>1, <2>2, <2>3 DEF Progress
    <2> QED BY <1>1, <2>1, <2>2, <2>3, <2>5, <2>6, <2>7, <2>8 DEF Progress, Moved
  <1>4. ASSUME NEW m \in Messages, InsertMessage(m) PROVE References' /\ Faithful'
    <2> DEFINE body == IF todo.messages[m] = "null" THEN "object" ELSE todo.messages[m]
               inserted == [tx EXCEPT !.mine.messages[m] = body]
               rest == [todo EXCEPT !.messages[m] = "none"]
               holds == db.messages[m] = "none" \/ tx.gone.messages[m] # "none"
    <2>1. /\ Tries(holds, inserted, rest) /\ Importing /\ import = "insert messages"
          /\ todo.messages[m] # "none"
      BY <1>4 DEF InsertMessage, Importing
    <2>b. body \in Bodies /\ body = Written(todo.messages[m])
      BY <1>0, <2>1 DEF Rows, Bodies, Written
    <2> HIDE DEF body
    <2>2. /\ inserted \in TxType /\ inserted.aborted = tx.aborted /\ inserted.gone = tx.gone
          /\ inserted.mine.sessions = tx.mine.sessions
          /\ inserted.mine.webhooks = tx.mine.webhooks
          /\ inserted.mine.messages = [tx.mine.messages EXCEPT ![m] = body]
      BY <1>0, <2>b DEF TxType, Rows
    <2>3. /\ rest \in Rows /\ rest.sessions = todo.sessions
          /\ rest.webhooks = todo.webhooks
          /\ rest.messages = [todo.messages EXCEPT ![m] = "none"]
      BY <1>0 DEF Rows, Bodies
    <2>4. Progress => holds BY <2>1 DEF Progress
    <2>5. todo.messages \in [Messages -> Bodies] /\ tx.mine.messages \in [Messages -> Bodies]
      BY <1>0 DEF TxType, Rows
    <2>6. holds \in BOOLEAN OBVIOUS
    <2>7. tx.mine.webhooks \subseteq tx.mine.sessions \cup (db.sessions \ tx.gone.sessions)
      BY DEF References
    <2> HIDE DEF inserted, rest, holds
    <2>8. ASSUME Progress, NEW k \in Messages
          PROVE  \/ /\ rest.messages[k] = file.messages[k]
                    /\ inserted.mine.messages[k] = "none"
                 \/ /\ rest.messages[k] = "none"
                    /\ inserted.mine.messages[k] = Written(file.messages[k])
      <3>1. Moved(k) BY <2>8 DEF Progress
      <3>2. CASE k = m
        BY <2>1, <2>b, <2>2, <2>3, <2>5, <3>1, <3>2 DEF Moved
      <3>3. CASE k # m
        BY <2>2, <2>3, <2>5, <3>1, <3>3 DEF Moved
      <3> QED BY <3>2, <3>3
    <2>9. Progress =>
            /\ file.sessions = rest.sessions \cup inserted.mine.sessions
            /\ file.webhooks = rest.webhooks \cup inserted.mine.webhooks
      BY <2>2, <2>3 DEF Progress
    <2>10. import \in {"insert sessions", "insert webhooks", "insert messages"} BY <2>1
    <2>11. holds => inserted.mine.webhooks \subseteq
              inserted.mine.sessions \cup (db.sessions \ tx.gone.sessions)
      BY <2>2, <2>7
    <2> QED BY <1>1, <2>1, <2>2, <2>3, <2>4, <2>6, <2>8, <2>9, <2>10, <2>11
  <1> QED BY <1>2, <1>3, <1>4

\* The next loop begins with the transaction as the last one left it.
LEMMA TableDoneFaithful ==
    ASSUME DInv, References, Faithful, TableDone
    PROVE  References' /\ Faithful'
  <1>1. /\ UNCHANGED <<db, file, export, tx, todo, origin, quiet, glitch>> /\ Importing
        /\ import \in {"insert sessions", "insert webhooks", "insert messages"}
        /\ import' \in {"insert webhooks", "insert messages", "commit"}
    BY DEF TableDone, Importing
  <1>2. References' BY <1>1 DEF References
  <1>3. Exported' <=> Exported BY <1>1 DEF Exported
  <1>4. Progress => Progress' BY <1>1 DEF Progress, Moved
  <1> QED BY <1>1, <1>2, <1>3, <1>4 DEF Faithful

\* What is committed has every webhook's session, and so has what is left when
\* the process ends.
LEMMA CommitFaithful ==
    ASSUME DInv, References, Faithful, Commit \/ DataRestart
    PROVE  References' /\ Faithful'
  <1>1. CASE Commit
    <2>1. /\ import' = "imported" /\ tx' = NoTx
          /\ UNCHANGED <<file, export, todo, origin, quiet, glitch>>
          /\ db' = db \/ db' = Replaced
      BY <1>1 DEF Commit
    <2>2. Replaced.webhooks \subseteq Replaced.sessions BY DEF Replaced, References
    <2>3. References' BY <2>1, <2>2, NoRowsEmpty DEF References
    <2>4. export = "done" BY <1>1 DEF DInv, Importing, Commit
    <2>5. Faithful' BY <2>1, <2>4 DEF Faithful, Exported, Importing
    <2> QED BY <2>3, <2>5
  <1>2. CASE DataRestart
    <2>1. /\ import' = "idle" /\ tx' = NoTx /\ UNCHANGED <<db, origin, quiet, glitch>>
          /\ \/ export' = "done" /\ export = "done" /\ file' = file
             \/ export' = "never"
      BY <1>2 DEF DataRestart
    <2>2. References' BY <2>1, NoRowsEmpty DEF References
    <2>3. Faithful' BY <2>1 DEF Faithful, Exported, Importing
    <2> QED BY <2>2, <2>3
  <1> QED BY <1>1, <1>2

\* Every webhook has its session, and the file and the transaction are faithful,
\* after every step.
LEMMA FaithfulKept ==
    DInv /\ References /\ Faithful /\ [DataNext \/ DataRestart]_dataVars
        => References' /\ Faithful'
  <1> SUFFICES ASSUME DInv, References, Faithful, [DataNext \/ DataRestart]_dataVars
               PROVE  References' /\ Faithful'
    OBVIOUS
  <1>1. CASE DataNext
    BY <1>1, GatewayReferences, ExportFaithful, DeletesFaithful, InsertsFaithful,
       TableDoneFaithful, CommitFaithful
    DEF DataNext
  <1>2. CASE DataRestart BY <1>2, CommitFaithful
  <1>3. CASE UNCHANGED dataVars
    BY <1>3 DEF dataVars, References, Faithful, Exported, Progress, Moved, Importing
  <1> QED BY <1>1, <1>2, <1>3

\* They hold of every state.
LEMMA FaithfulAlways == DataSpec => [](References /\ Faithful)
  <1>1. DataInit => References /\ Faithful
    BY NoRowsEmpty DEF DataInit, References, Faithful, Exported, Importing
  <1> QED BY <1>1, FaithfulKept, DataAlways, PTL DEF DataSpec

\* An import that nobody disturbs commits the rows the export began with.
LEMMA CommitsOrigin ==
    ASSUME DInv, References, Faithful, Commit, quiet, ~glitch
    PROVE  db' = [origin EXCEPT !.messages = [m \in Messages |-> Written(origin.messages[m])]]
  <1> DEFINE there == [origin EXCEPT !.messages = [m \in Messages |-> Written(origin.messages[m])]]
  <1>0. /\ origin \in Rows /\ db \in Rows /\ file \in Rows /\ todo \in Rows /\ tx \in TxType
    BY DEF DInv, DataTypeOK, TxType
  <1>1. import = "commit" /\ Importing BY DEF Commit, Importing
  <1>2. Progress /\ file = origin
    BY <1>1 DEF Faithful, Exported, DInv
  <1>3. db' = Replaced /\ tx.gone = db BY <1>1, <1>2 DEF Commit, Progress
  <1>4. todo.sessions = {} /\ todo.webhooks = {} /\ \A m \in Messages : todo.messages[m] = "none"
    BY <1>1 DEF DInv, Over
  <1>5. Replaced.sessions = origin.sessions /\ Replaced.webhooks = origin.webhooks
    BY <1>2, <1>3, <1>4 DEF Progress, Replaced
  <1>6. ASSUME NEW m \in Messages PROVE Replaced.messages[m] = Written(origin.messages[m])
    <2>1. tx.mine.messages[m] = Written(origin.messages[m])
      <3>1. Moved(m) BY <1>2 DEF Progress
      <3> QED BY <1>2, <1>4, <3>1 DEF Moved, Written
    <2>2. tx.mine.messages[m] = "none" => Replaced.messages[m] = "none"
      BY <1>3 DEF Replaced
    <2>3. tx.mine.messages[m] # "none" => Replaced.messages[m] = tx.mine.messages[m]
      BY DEF Replaced
    <2> QED BY <2>1, <2>2, <2>3
  <1>7. /\ there.sessions = origin.sessions /\ there.webhooks = origin.webhooks
        /\ there.messages = [m \in Messages |-> Written(origin.messages[m])]
        /\ there \in Rows
    <2>1. \A m \in Messages : Written(origin.messages[m]) \in Bodies
      BY <1>0 DEF Rows, Bodies, Written
    <2> QED BY <1>0, <2>1 DEF Rows
  <1>8. Replaced.messages = [m \in Messages |-> Written(origin.messages[m])]
    BY <1>6 DEF Replaced
  <1>9. Replaced \in Rows BY ReplacedOK
  <1> HIDE DEF there
  <1>10. Replaced = there BY <1>5, <1>7, <1>8, <1>9, SameRows
  <1> QED BY <1>3, <1>10 DEF there

\* What is exported and imported again, with nobody writing meanwhile and no
\* query failing, is what there was, a missing body having become an empty
\* object: into the same tables or an empty database, after restarts or not.
THEOREM ThereAndBack == DataSpec => RoundTrip
  <1>1. ASSUME DInv, References, Faithful, [DataNext \/ DataRestart]_dataVars,
               import = "commit" /\ import' = "imported" /\ quiet /\ ~glitch
        PROVE  db' = [origin EXCEPT !.messages = [m \in Messages |->
                 IF origin.messages[m] = "null" THEN "object" ELSE origin.messages[m]]]
    <2>1. Commit
      BY <1>1 DEF DataNext, DataRestart, dataVars, Works, CreateSession, DeleteSession,
         CreateWebhook, SaveMessage, InsertSession, InsertWebhook, InsertMessage, ChangeDatabase,
         ExportSessions, ExportWebhooks, ExportMessages, ImportBegins, DeleteWebhooks,
         DeleteMessages, DeleteSessions, TableDone, ImportRejects, Importing
    <2> QED BY <1>1, <2>1, CommitsOrigin DEF Written
  <1>2. DInv /\ References /\ Faithful /\ [DataNext \/ DataRestart]_dataVars =>
          [import = "commit" /\ import' = "imported" /\ quiet /\ ~glitch =>
             db' = [origin EXCEPT !.messages = [m \in Messages |->
               IF origin.messages[m] = "null" THEN "object" ELSE origin.messages[m]]]]_dataVars
    BY <1>1
  <1> QED BY <1>2, DataAlways, FaithfulAlways, PTL DEF DataSpec, RoundTrip
=============================================================================
