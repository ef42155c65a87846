------------------------------ MODULE NumaDev ------------------------------
(***************************************************************************)
(* The developer server of bin/numa-dev.rs: a file of `<ip> <domain>...`   *)
(* lines is loaded at start and again every three seconds by a reloader    *)
(* thread, which publishes the whole table at once (ArcSwap); the UDP loop *)
(* and one thread per TCP connection take a snapshot of the table for each *)
(* message and answer from it.                                             *)
(*                                                                         *)
(* An editor rewrites the file line by line, so a reload may meet a file   *)
(* that is cut short.  A line is blank, bad, or an address with names; a   *)
(* name is its labels and whether it is written in capitals or with a      *)
(* final dot, neither of which normalize_domain keeps.  A message is a     *)
(* sequence of cells: a label, a pointer to a cell, the end of a name, or  *)
(* a query type.                                                           *)
(***************************************************************************)
EXTENDS Naturals, Sequences

CONSTANTS
    Drafts,      \* the contents an editor may save, sequences of lines
    Messages,    \* what clients send: [qdcount, cells]
    Workers,     \* the UDP loop and the TCP connections
    UdpLoop,     \* the worker that is the main loop
    MAX_READ_JUMPS,
    MaxSaves

VARIABLES
    devFile,     \* the lines of the domains file
    unsaved,     \* the lines an editor has still to write
    devEntries,  \* the published table: name |-> address
    reloader,    \* [busy: the thread has read the file, read: what it read]
    worker,      \* each worker's message and snapshot
    replies,     \* the last response with its question
    devUp,       \* the process runs
    versions,    \* every table the file has stood for
    saves

devVars == <<devFile, unsaved, devEntries, reloader, worker, replies, devUp, versions, saves>>

Error == [ok |-> FALSE]

-----------------------------------------------------------------------------
(* Reading the file.  A table is a set of name and address pairs with one  *)
(* pair for a name; a file that does not load stands for no table, {}.     *)

normalize_domain(name) == name.labels

ValidName(name) == /\ normalize_domain(name) # <<>>
                   /\ Head(normalize_domain(name)) # "*"

ValidLine(line) == \/ line.kind = "blank"
                   \/ /\ line.kind = "hosts"
                      /\ line.names # <<>>
                      /\ \A k \in DOMAIN line.names : ValidName(line.names[k])

NamesOf(line) == IF line.kind # "hosts" THEN {}
                 ELSE {normalize_domain(line.names[i]) : i \in DOMAIN line.names}

(* A later line replaces an earlier one for the same name.                 *)
TableOf(lines) ==
    UNION {{[name |-> n, ip |-> lines[k].ip] :
                n \in {m \in NamesOf(lines[k]) :
                          \A j \in k + 1 .. Len(lines) : m \notin NamesOf(lines[j])}} :
              k \in DOMAIN lines}

load_domains(lines) ==
    IF \A k \in DOMAIN lines : ValidLine(lines[k]) THEN TableOf(lines) ELSE {}

Found(table, name) == {e \in table : e.name = name}

-----------------------------------------------------------------------------
(* Reading a message. *)

(* The labels from cell `offset` on and the cell behind the name, where    *)
(* the first pointer ends it; more than MAX_READ_JUMPS pointers are an     *)
(* error, and so is a cell outside the message.                            *)
read_name(cells, offset) ==
    LET walk[pos \in Nat, jumps \in 0 .. MAX_READ_JUMPS + 1] ==
            IF jumps > MAX_READ_JUMPS \/ pos \notin DOMAIN cells THEN Error
            ELSE CASE cells[pos].kind = "end" -> [ok |-> TRUE, labels |-> <<>>]
                   [] cells[pos].kind = "pointer" -> walk[cells[pos].to, jumps + 1]
                   [] cells[pos].kind = "label" ->
                          LET rest == walk[pos + 1, jumps]
                          IN  IF ~rest.ok THEN Error
                              ELSE [ok |-> TRUE, labels |-> <<cells[pos].text>> \o rest.labels]
                   [] OTHER -> Error
        stop == CHOOSE k \in offset .. Len(cells) :
                    /\ cells[k].kind # "label"
                    /\ \A j \in offset .. k - 1 : cells[j].kind = "label"
        name == walk[offset, 0]
    IN  IF ~name.ok THEN Error ELSE [ok |-> TRUE, labels |-> name.labels, offset |-> stop + 1]

parse_query(msg) ==
    LET name == read_name(msg.cells, 1)
    IN  IF \/ msg.qdcount = 0
           \/ ~name.ok
           \/ name.offset \notin DOMAIN msg.cells     \* the question is cut short
        THEN Error
        ELSE [ok |-> TRUE,
              domain |-> normalize_domain([labels |-> name.labels]),
              qtype |-> msg.cells[name.offset].type,
              question_end |-> name.offset]

BugRepeatsNameOnly(msg, query, table) ==
    [rcode |-> IF Found(table, query.domain) = {} THEN "NXDOMAIN" ELSE "NOERROR",
     question |-> SubSeq(msg.cells, 1, query.question_end - 1),
     answers |-> {e.ip : e \in {f \in Found(table, query.domain) : query.qtype = "A"}}]

(* The response repeats the cells of the question up to question_end.      *)
build_response(msg, query, table) ==
    [rcode |-> IF Found(table, query.domain) = {} THEN "NXDOMAIN" ELSE "NOERROR",
     question |-> SubSeq(msg.cells, 1, query.question_end),
     answers |-> {e.ip : e \in {f \in Found(table, query.domain) : query.qtype = "A"}}]

-----------------------------------------------------------------------------
Waiting == [busy |-> FALSE]
Asleep == [busy |-> FALSE, read |-> <<>>]

Versioned(lines) == {load_domains(lines)} \ {{}}

(* main: the server starts only from a file that loads.                    *)
DevInit ==
    /\ devFile \in {d \in Drafts : load_domains(d) # {}}
    /\ unsaved = <<>>
    /\ devEntries = load_domains(devFile)
    /\ reloader = Asleep
    /\ worker = [w \in Workers |-> Waiting]
    /\ replies = {}
    /\ devUp = TRUE
    /\ versions = {load_domains(devFile)}
    /\ saves = 0

(* The user saves the file: it is truncated, then written line by line.    *)
StartSave == /\ saves < MaxSaves /\ unsaved = <<>>
             /\ \E d \in Drafts \ {devFile} : unsaved' = d
             /\ devFile' = <<>>
             /\ saves' = saves + 1
             /\ UNCHANGED <<devEntries, reloader, worker, replies, devUp, versions>>

WriteLine == /\ unsaved # <<>>
             /\ devFile' = Append(devFile, Head(unsaved))
             /\ unsaved' = Tail(unsaved)
             /\ versions' = versions \cup Versioned(devFile')
             /\ UNCHANGED <<devEntries, reloader, worker, replies, devUp, saves>>

(* The reloader thread wakes and reads the file, ...                       *)
ReadFile == /\ devUp /\ ~reloader.busy
            /\ reloader' = [busy |-> TRUE, read |-> devFile]
            /\ UNCHANGED <<devFile, unsaved, devEntries, worker, replies, devUp, versions, saves>>

(* ... and publishes the table, or keeps the previous one.                 *)
BugEmptiesOnError == /\ devUp /\ reloader.busy
                     /\ devEntries' = load_domains(reloader.read)
                     /\ reloader' = Asleep
                     /\ UNCHANGED <<devFile, unsaved, worker, replies, devUp, versions, saves>>
Reload == /\ devUp /\ reloader.busy
          /\ devEntries' = IF load_domains(reloader.read) = {} THEN devEntries
                        ELSE load_domains(reloader.read)
          /\ reloader' = Asleep
          /\ UNCHANGED <<devFile, unsaved, worker, replies, devUp, versions, saves>>

(* A worker receives a message and takes its snapshot of the table, ...    *)
TakeMessage(w) ==
    /\ devUp /\ ~worker[w].busy
    /\ \E m \in Messages :
          worker' = [worker EXCEPT ![w] = [busy |-> TRUE, msg |-> m, table |-> devEntries]]
    /\ UNCHANGED <<devFile, unsaved, devEntries, reloader, replies, devUp, versions, saves>>

(* ... and answers it; a message that does not parse gets no answer.       *)
handle_dns_message(w) ==
    /\ devUp /\ worker[w].busy
    /\ LET query == parse_query(worker[w].msg)
       IN  replies' = IF ~query.ok THEN replies
                      ELSE {[domain |-> query.domain,
                             qtype |-> query.qtype,
                             response |-> build_response(worker[w].msg, query, worker[w].table)]}
    /\ worker' = [worker EXCEPT ![w] = Waiting]
    /\ UNCHANGED <<devFile, unsaved, devEntries, reloader, devUp, versions, saves>>

(* An error of recv_from ends main and with it the process.                *)
UdpFails == /\ devUp /\ ~worker[UdpLoop].busy
            /\ devUp' = FALSE
            /\ UNCHANGED <<devFile, unsaved, devEntries, reloader, worker, replies, versions, saves>>

DevNext ==
    \/ StartSave \/ WriteLine \/ ReadFile \/ Reload \/ UdpFails
    \/ \E w \in Workers : TakeMessage(w) \/ handle_dns_message(w)

(* The reloader's loop is endless, and an editor finishes what it saves.   *)
DevFairness == /\ WF_devVars(ReadFile) /\ WF_devVars(Reload) /\ WF_devVars(WriteLine)

DevSpec == DevInit /\ [][DevNext]_devVars /\ DevFairness

-----------------------------------------------------------------------------
(* Whatever the reloader and the editor do meanwhile, what a response says *)
(* of a name is what one complete, valid content of the file said of it:   *)
(* no answer comes from half a line, from a file with an error in it, or   *)
(* from a mix of two tables (src/src/bin/numa-dev.rs).                     *)
AnswersAreOneVersion ==
    \A r \in replies : \E v \in versions :
        /\ (r.response.rcode = "NXDOMAIN") = (Found(v, r.domain) = {})
        /\ r.response.answers = {e.ip : e \in {f \in Found(v, r.domain) : r.qtype = "A"}}

(* The part of the question that a response repeats is the question asked: *)
(* read on its own it has the same name and type, where the name ends at a *)
(* pointer too (src/src/bin/numa-dev.rs, build_response).                  *)
QuestionsAreRepeated ==
    \A r \in replies :
        LET asked == parse_query([qdcount |-> 1, cells |-> r.response.question])
        IN  asked.ok /\ asked.domain = r.domain /\ asked.qtype = r.qtype

(* However often the file is edited and whatever errors the reloader meets *)
(* on the way, the server ends up answering from the file as it was saved  *)
(* last, for good, if that content loads.                                  *)
CatchesUp == <>[](devUp /\ load_domains(devFile) # {} => devEntries = load_domains(devFile))

=============================================================================
