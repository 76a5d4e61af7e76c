--------------------------- MODULE DataMigration ---------------------------
(***************************************************************************)
(* Moving the data database (InfraController): export-data reads the       *)
(* tables one after the other, import-data replaces their rows in one      *)
(* transaction of a PostgreSQL database, and the gateway goes on working   *)
(* on the tables meanwhile.                                                *)
(*                                                                         *)
(* A webhook belongs to a session (with ON DELETE CASCADE); one for each   *)
(* session is enough, so it goes by the session's name.  Messages and      *)
(* batches belong to no other row, and are alike here.                     *)
(***************************************************************************)
EXTENDS FiniteSets

CONSTANTS
    Sessions,   \* session ids
    Messages    \* ids of messages and batches

VARIABLES
    db,         \* the committed rows
    file,       \* the exported rows
    export,     \* what export-data reads next
    import,     \* what import-data does next
    tx,         \* the transaction of the import
    todo,       \* rows of the file it has not come to
    origin,     \* the rows when the export began (history)
    quiet,      \* nobody else has written since (history)
    glitch      \* a query was rejected for a reason of its own (history)

dataVars == <<db, file, export, import, tx, todo, origin, quiet, glitch>>

Bodies == {"none", "text", "null", "object"}

Rows == [sessions : SUBSET Sessions, webhooks : SUBSET Sessions,
         messages : [Messages -> Bodies]]

NoRows == [sessions |-> {}, webhooks |-> {}, messages |-> [m \in Messages |-> "none"]]

Stored(rows) == {m \in Messages : rows.messages[m] # "none"}

\* aborted: PostgreSQL has refused a statement, and refuses every later one;
\* gone, mine: the rows deleted and inserted by the transaction.
NoTx == [aborted |-> FALSE, gone |-> NoRows, mine |-> NoRows]

ExportPoints == {"never", "webhooks", "messages", "done"}

ImportPoints == {"idle", "delete webhooks", "delete messages", "delete sessions",
                 "insert sessions", "insert webhooks", "insert messages", "commit",
                 "imported", "rejected"}

DataTypeOK ==
    /\ db \in Rows /\ file \in Rows /\ todo \in Rows /\ origin \in Rows
    /\ export \in ExportPoints /\ import \in ImportPoints
    /\ tx \in [aborted : BOOLEAN, gone : Rows, mine : Rows]
    /\ quiet \in BOOLEAN /\ glitch \in BOOLEAN

DataInit ==
    /\ db = NoRows /\ file = NoRows /\ todo = NoRows /\ origin = NoRows
    /\ export = "never" /\ import = "idle" /\ tx = NoTx
    /\ quiet = TRUE /\ glitch = FALSE

Importing == import \notin {"idle", "imported", "rejected"}

-----------------------------------------------------------------------------
\* The gateway at work.  Ids are new, never those of exported rows; a row that
\* the transaction has deleted, or refers to, is locked.
Works ==
    /\ quiet' = FALSE
    /\ UNCHANGED <<file, export, import, tx, todo, origin, glitch>>

CreateSession(s) ==
    /\ s \notin db.sessions \cup file.sessions
    /\ db' = [db EXCEPT !.sessions = @ \cup {s}]
    /\ Works

DeleteSession(s) ==
    /\ s \in db.sessions \ tx.gone.sessions
    /\ s \notin tx.gone.webhooks \cup tx.mine.webhooks
    /\ db' = [db EXCEPT !.sessions = @ \ {s}, !.webhooks = @ \ {s}]
    /\ Works

CreateWebhook(s) ==
    /\ s \in db.sessions \ tx.gone.sessions
    /\ s \notin db.webhooks \cup file.webhooks
    /\ db' = [db EXCEPT !.webhooks = @ \cup {s}]
    /\ Works

\* A message without text has no body.
SaveMessage(m, body) ==
    /\ db.messages[m] = "none" /\ file.messages[m] = "none"
    /\ db' = [db EXCEPT !.messages[m] = body]
    /\ Works

\* The gateway is started with another, empty database.
ChangeDatabase ==
    /\ export = "done" /\ ~Importing
    /\ db' = NoRows /\ import' = "idle" /\ tx' = NoTx /\ todo' = NoRows
    /\ UNCHANGED <<file, export, origin, quiet, glitch>>

-----------------------------------------------------------------------------
\* export-data: a query for each table, and no transaction around them

ExportSessions ==
    /\ export \in {"never", "done"} /\ ~Importing
    /\ file' = [NoRows EXCEPT !.sessions = db.sessions]
    /\ export' = "webhooks"
    /\ origin' = db /\ quiet' = TRUE /\ glitch' = FALSE
    /\ UNCHANGED <<db, import, tx, todo>>

ExportWebhooks ==
    /\ export = "webhooks"
    /\ file' = [file EXCEPT !.webhooks = db.webhooks]
    /\ export' = "messages"
    /\ UNCHANGED <<db, import, tx, todo, origin, quiet, glitch>>

\* A query for messages or batches that fails counts as an empty table.
ExportMessages ==
    /\ export = "messages"
    /\ \/ file' = [file EXCEPT !.messages = db.messages] /\ UNCHANGED glitch
       \/ UNCHANGED file /\ glitch' = TRUE
    /\ export' = "done"
    /\ UNCHANGED <<db, import, tx, todo, origin, quiet>>

-----------------------------------------------------------------------------
\* import-data

ImportBegins ==
    /\ export = "done" /\ ~Importing
    /\ import' = "delete webhooks"
    /\ tx' = NoTx /\ todo' = file
    /\ UNCHANGED <<db, file, export, origin, quiet, glitch>>

DeleteWebhooks ==
    /\ import = "delete webhooks"
    /\ import' = "delete messages"
    /\ tx' = [tx EXCEPT !.gone.webhooks = db.webhooks]
    /\ UNCHANGED <<db, file, export, todo, origin, quiet, glitch>>

\* Its errors are caught, and the transaction is aborted all the same.
DeleteMessages ==
    /\ import = "delete messages"
    /\ import' = "delete sessions"
    /\ \/ tx' = [tx EXCEPT !.gone.messages = db.messages] /\ UNCHANGED glitch
       \/ tx' = [tx EXCEPT !.aborted = TRUE] /\ glitch' = TRUE
    /\ UNCHANGED <<db, file, export, todo, origin, quiet>>

\* An import that leaves the sessions of the target.
KeepSessions ==
    /\ import = "delete sessions" /\ ~tx.aborted
    /\ import' = "insert sessions"
    /\ UNCHANGED <<db, file, export, tx, todo, origin, quiet, glitch>>

\* Their webhooks go with them.
DeleteSessions ==
    /\ import = "delete sessions" /\ ~tx.aborted
    /\ import' = "insert sessions"
    /\ tx' = [tx EXCEPT !.gone.sessions = db.sessions, !.gone.webhooks = db.webhooks]
    /\ UNCHANGED <<db, file, export, todo, origin, quiet, glitch>>

\* A statement outside the rows' own try is rejected: rollback, and the error is
\* thrown.
ImportRejects ==
    /\ import \in {"delete webhooks", "delete sessions", "commit"}
    /\ import' = "rejected" /\ tx' = NoTx /\ glitch' = TRUE
    /\ UNCHANGED <<db, file, export, todo, origin, quiet>>

\* A loop that gives each row a savepoint.
TriesAlone(holds, inserted, rest) ==
    /\ todo' = rest
    /\ \/ ~tx.aborted /\ holds /\ tx' = inserted /\ UNCHANGED glitch
       \/ UNCHANGED tx /\ glitch' = (glitch \/ (holds /\ ~tx.aborted))
    /\ UNCHANGED <<db, file, export, import, origin, quiet>>

\* A row's INSERT: it succeeds when the constraints hold, and any may fail for a
\* reason of its own.  The failure is a warning, and the loop goes on.
Tries(holds, inserted, rest) ==
    /\ todo' = rest
    /\ \/ ~tx.aborted /\ holds /\ tx' = inserted /\ UNCHANGED glitch
       \/ tx' = [tx EXCEPT !.aborted = TRUE] /\ glitch' = (glitch \/ (holds /\ ~tx.aborted))
    /\ UNCHANGED <<db, file, export, import, origin, quiet>>

\* The ids are a primary key.
InsertSession(s) ==
    /\ import = "insert sessions" /\ s \in todo.sessions
    /\ Tries(s \notin db.sessions \/ s \in tx.gone.sessions,
             [tx EXCEPT !.mine.sessions = @ \cup {s}],
             [todo EXCEPT !.sessions = @ \ {s}])

\* The foreign key asks for the session.
InsertWebhook(s) ==
    /\ import = "insert webhooks" /\ s \in todo.webhooks
    /\ Tries(s \in tx.mine.sessions \/ s \in db.sessions \ tx.gone.sessions,
             [tx EXCEPT !.mine.webhooks = @ \cup {s}],
             [todo EXCEPT !.webhooks = @ \ {s}])

\* A missing body is written as an empty object.
InsertMessage(m) ==
    /\ import = "insert messages" /\ todo.messages[m] # "none"
    /\ Tries(db.messages[m] = "none" \/ tx.gone.messages[m] # "none",
             [tx EXCEPT !.mine.messages[m] =
                IF todo.messages[m] = "null" THEN "object" ELSE todo.messages[m]],
             [todo EXCEPT !.messages[m] = "none"])

\* On to the next loop once the one before has come to its end.
TableDone ==
    /\ \/ import = "insert sessions" /\ todo.sessions = {} /\ import' = "insert webhooks"
       \/ import = "insert webhooks" /\ todo.webhooks = {} /\ import' = "insert messages"
       \/ import = "insert messages" /\ Stored(todo) = {} /\ import' = "commit"
    /\ UNCHANGED <<db, file, export, tx, todo, origin, quiet, glitch>>

Replaced ==
    [sessions |-> (db.sessions \ tx.gone.sessions) \cup tx.mine.sessions,
     webhooks |-> (db.webhooks \ tx.gone.webhooks) \cup tx.mine.webhooks,
     messages |-> [m \in Messages |->
        IF tx.mine.messages[m] # "none" THEN tx.mine.messages[m]
        ELSE IF tx.gone.messages[m] # "none" THEN "none" ELSE db.messages[m]]]

\* The COMMIT of an aborted transaction rolls it back, and is no error.
Commit ==
    /\ import = "commit"
    /\ db' = IF tx.aborted THEN db ELSE Replaced
    /\ import' = "imported" /\ tx' = NoTx
    /\ UNCHANGED <<file, export, todo, origin, quiet, glitch>>

\* The process ends: the server rolls the transaction back; a file is kept.
DataRestart ==
    /\ export' = IF export = "done" THEN "done" ELSE "never"
    /\ file' = IF export = "done" THEN file ELSE NoRows
    /\ import' = "idle" /\ tx' = NoTx /\ todo' = NoRows
    /\ UNCHANGED <<db, origin, quiet, glitch>>

DataNext ==
    \/ \E s \in Sessions :
        \/ CreateSession(s) \/ DeleteSession(s) \/ CreateWebhook(s)
        \/ InsertSession(s) \/ InsertWebhook(s)
    \/ \E m \in Messages : InsertMessage(m) \/ \E body \in {"text", "null"} : SaveMessage(m, body)
    \/ ChangeDatabase
    \/ ExportSessions \/ ExportWebhooks \/ ExportMessages
    \/ ImportBegins \/ DeleteWebhooks \/ DeleteMessages \/ DeleteSessions
    \/ TableDone \/ ImportRejects \/ Commit

DataSpec == DataInit /\ [][DataNext \/ DataRestart]_dataVars

-----------------------------------------------------------------------------
\* Properties

\* The rows are among those given, whatever their bodies have become.
Holds(rows, given) ==
    /\ given.sessions \subseteq rows.sessions
    /\ given.webhooks \subseteq rows.webhooks
    /\ Stored(given) \subseteq Stored(rows)

\* An import changes the tables all at once or not at all: after the COMMIT that
\* changes them, every row of the file is in them.
AllOrNothing ==
    [][import = "commit" /\ import' = "imported" /\ db' # db => Holds(db', file)]_dataVars

\* What was exported and imported, with nobody writing in between and no query
\* failing, is what there was when the export began: in the same database or in
\* an empty one, the rows come back in an order their constraints allow.
RoundTrip ==
    [][import = "commit" /\ import' = "imported" /\ quiet /\ ~glitch =>
        db' = [origin EXCEPT !.messages = [m \in Messages |->
                IF origin.messages[m] = "null" THEN "object" ELSE origin.messages[m]]]]_dataVars

\* An import that is answered with imported: true has put the file's rows in the
\* place of the existing ones.
ImportedMeansReplaced ==
    [][import = "commit" /\ import' = "imported" => Holds(db', file)]_dataVars
=============================================================================
