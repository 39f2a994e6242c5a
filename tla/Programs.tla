------------------------------- MODULE Programs -------------------------------
(***************************************************************************)
(* The built-in tools that run a program for one call: a shell command     *)
(* (builtin_tools.rs, execute_bash and execute_shell), of which the exit   *)
(* status and all the output are awaited; and a language server            *)
(* (lsp_client.rs), started, asked and shut down again over its pipes.     *)
(* Either is under one timeout, and a cancel may drop it at any await.     *)
(*                                                                         *)
(* A frame from the server is the id it bears and what it is.  Requests are*)
(* numbered 1 (initialize), 2 (the query) and 3 (shutdown).  The program   *)
(* may have started another, which has its pipes as well.                  *)
(***************************************************************************)
EXTENDS Naturals, Sequences

CONSTANT MaxFrames \* bound: frames a server sends

ASSUME ProgramsAssumption == MaxFrames \in Nat

VARIABLES tool,     \* "shell" or "lsp"
          step,     \* "start", "command", "initialize", "query", "shutdown",
                    \* "leaving" (child.wait) or "over"
          draining, \* read_to_end of stderr, before an error is told
          program,  \* "none", "alive" or "gone"
          holder,   \* what it started is alive
          queue,    \* frames sent and not read
          sent,     \* frames sent
          took,     \* the frame taken for the query's answer
          outcome   \* of the call: "none" yet, "ok", "failed", "error", "timeout"
                    \* or "dropped"

lvars == <<tool, step, draining, program, holder, queue, sent, took, outcome>>

NoFrame == [id |-> 0, kind |-> "none"]
Requests == {"initialize", "query", "shutdown"}
IdOf == [initialize |-> 1, query |-> 2, shutdown |-> 3]

LInit ==
    /\ tool \in {"shell", "lsp"}
    /\ step = "start" /\ draining = FALSE
    /\ program = "none" /\ holder = FALSE
    /\ queue = <<>> /\ sent = {} /\ took = NoFrame
    /\ outcome = "none"

-----------------------------------------------------------------------------
\* The program

\* What a server may send now: an answer to a request it had, but no second; a
\* request of its own, by a number of its own; what has no id; and no frame.
Frames ==
    [id : {r \in 1..3 : step \in Requests /\ r <= IdOf[step]} \ {f.id : f \in
              {g \in sent : g.kind \in {"result", "error"}}},
     kind : {"result", "error"}]
    \cup [id : {1, 2}, kind : {"request"}]
    \cup [id : {0}, kind : {"note", "bad"}]

ServerSends ==
    /\ tool = "lsp" /\ program = "alive" /\ step # "over"
    /\ \E f \in Frames \ sent :
         /\ sent' = sent \cup {f}
         /\ queue' = Append(queue, f)
    /\ Len(queue) < MaxFrames
    /\ UNCHANGED <<tool, step, draining, program, holder, took, outcome>>

ProgramEnds ==
    /\ program = "alive"
    /\ program' = "gone"
    /\ UNCHANGED <<tool, step, draining, holder, queue, sent, took, outcome>>

HolderStarts ==
    /\ program = "alive" /\ ~holder
    /\ holder' = TRUE
    /\ UNCHANGED <<tool, step, draining, program, queue, sent, took, outcome>>

HolderEnds ==
    /\ holder
    /\ holder' = FALSE
    /\ UNCHANGED <<tool, step, draining, program, queue, sent, took, outcome>>

OutputClosed == program = "gone" /\ ~holder

-----------------------------------------------------------------------------
\* The call

Call == UNCHANGED <<tool, holder, sent>>
Ends(how) == step' = "over" /\ draining' = FALSE /\ outcome' = how

\* A file that cannot be read, or no program.
SpawnFails ==
    /\ step = "start"
    /\ Ends("error")
    /\ Call /\ UNCHANGED <<program, queue, took>>

Spawn ==
    /\ step = "start"
    /\ program' = "alive"
    /\ step' = IF tool = "lsp" THEN "initialize" ELSE "command"
    /\ Call /\ UNCHANGED <<draining, queue, took, outcome>>

\* output(): the shell has ended, and so has what it wrote; by its status.
CommandEnds ==
    /\ step = "command" /\ OutputClosed
    /\ \E how \in {"ok", "failed"} : Ends(how)
    /\ Call /\ UNCHANGED <<program, queue, took>>

\* A wrong reader: any frame with an id will do.
MatchesAny(f) == f.id # 0

\* read_response_for looks at the id, and not at whether it is a response.
Matches(f) == f.id = IdOf[step]

\* What follows a response to the request at hand, or an error.
\* Writing to nobody is an error, but no longer at the shutdown.
Onward ==
    IF step = "shutdown" THEN step' = "leaving" /\ UNCHANGED outcome
    ELSE IF OutputClosed /\ step = "initialize" THEN step' = "over" /\ outcome' = "error"
    ELSE step' = (IF step = "initialize" THEN "query" ELSE "shutdown") /\ UNCHANGED outcome

Broken ==
    IF step = "shutdown" THEN step' = "leaving" /\ UNCHANGED outcome
    ELSE step' = "over" /\ outcome' = "error"

ReadFrame ==
    /\ step \in Requests /\ ~draining /\ queue # <<>>
    /\ LET f == Head(queue) IN
         /\ queue' = Tail(queue)
         /\ draining' = (f.kind = "bad")
         /\ IF Matches(f)
            THEN /\ IF f.kind = "error" THEN Broken ELSE Onward
                 /\ took' = IF step = "query" THEN f ELSE took
            ELSE UNCHANGED <<step, outcome, took>>
    /\ Call /\ UNCHANGED program

\* The output ends where a frame should begin.
ReadEnd ==
    /\ step \in Requests /\ ~draining /\ queue = <<>> /\ OutputClosed
    /\ draining' = TRUE
    /\ Call /\ UNCHANGED <<step, program, queue, took, outcome>>

\* What the server had to say of the error is read to its end.
Drained ==
    /\ draining /\ OutputClosed
    /\ draining' = FALSE
    /\ Broken
    /\ Call /\ UNCHANGED <<program, queue, took>>

Leave ==
    /\ step = "leaving" /\ program = "gone"
    /\ Ends("ok")
    /\ Call /\ UNCHANGED <<program, queue, took>>

\* The future is dropped.  The shell is killed with it, and nothing it started;
\* a language server finds its input closed, and that is all.
GiveUp(how) ==
    /\ step \notin {"start", "over"}
    /\ Ends(how)
    /\ program' = IF tool = "shell" THEN "gone" ELSE program
    /\ Call /\ UNCHANGED <<queue, took>>

LTimeout == GiveUp("timeout")
LCancel == GiveUp("dropped")

CallOver == step = "over" /\ UNCHANGED lvars

LNext ==
    \/ SpawnFails \/ Spawn
    \/ ServerSends \/ ProgramEnds \/ HolderStarts \/ HolderEnds
    \/ CommandEnds \/ ReadFrame \/ ReadEnd \/ Drained \/ Leave
    \/ LTimeout \/ LCancel
    \/ CallOver

\* The runtime's timer fires; the program may do nothing at all.
LSpec == LInit /\ [][LNext]_lvars /\ WF_lvars(LTimeout)

-----------------------------------------------------------------------------
\* Properties

\* A shell command that is reported, as a success or not, has ended with all it
\* started that could still write; one given up has a shell no more.  A language
\* server's answer is that server's answer to the query, unless the server asked
\* something by the same number; a server that answered is not reported as an
\* error for what it does at the shutdown.  (execute_bash, read_response_for,
\* run_lsp_query.)
ProgramAnswers ==
    /\ tool = "shell" /\ outcome \in {"ok", "failed"} => OutputClosed
    /\ tool = "shell" /\ step = "over" => program # "alive"
    /\ tool = "lsp" /\ outcome = "ok" =>
         \/ took = [id |-> 2, kind |-> "result"]
         \/ took = [id |-> 2, kind |-> "request"]
    /\ took.kind = "result" => outcome \in {"none", "ok", "timeout", "dropped"}

\* The tool has not answered yet.
ToolPending == step \notin {"start", "over"}
=============================================================================
