----------------------------- MODULE BuiltinTools -----------------------------
(***************************************************************************)
(* The built-in tools that leave something behind                          *)
(* (src/src/builtin_tools.rs): REPL sessions, each a bash on two pipes     *)
(* that one process keeps from call to call, and mailboxes, each a file    *)
(* under a lock file that all processes share.                             *)
(*                                                                         *)
(* A process makes one call at a time.  A REPL call can be cut short at    *)
(* any await, by a timeout or a cancel; a mailbox call blocks its thread   *)
(* and cannot, but its process can be killed.  One session and one mailbox *)
(* are modelled: others have pipes, a sentinel and files of their own.     *)
(***************************************************************************)
EXTENDS Naturals, Sequences, FiniteSets

CONSTANTS Procs, Owner,  \* cubi processes, and the one whose REPL is modelled
          PipeCap,       \* payloads the shell's stdin holds unread
          MaxCalls,      \* bound: calls made
          MaxLines,      \* bound: lines an eval prints
          MaxKills       \* bound: processes killed

None == "none"

ASSUME ToolsAssumption ==
    /\ Owner \in Procs /\ None \notin Procs
    /\ {PipeCap, MaxCalls, MaxLines, MaxKills} \subseteq Nat
    /\ PipeCap > 0

VARIABLES limited,  \* tool_timeout_secs is set: a call as a whole is timed
          open,     \* the session is in the map
          shell,    \* its bash: "none", "alive" or "dead"
          running,  \* the eval bash is at, 0 for none
          printed,  \* lines it has printed for the last eval it took up
          input, output,  \* the two pipes: payloads, and lines
          torn,     \* the next line has lost its beginning to a dropped read
          upset,    \* ghost: an eval of this session was abandoned, or broke off
          eval,     \* the await of the REPL call: "idle", "writing", "reading", "closing"
          asked,    \* its eval
          got,      \* the lines it has read
          reply,    \* what the last eval returned, or NoReply
          lock,     \* who made the lock file, None if there is none
          box,      \* the mailbox
          mail,     \* the mailbox call of each process
          calls, mailed, kills,  \* calls, messages and kills so far
          delivered, refused,   \* ghost: what senders were told of each message
          returned, \* ghost: how often each message was returned by a drain
          lost      \* ghost: taken by a process that was killed

sessionVars == <<open, shell, running, printed, input, output, torn, upset>>
callVars == <<eval, asked, got, reply>>
repl == <<limited, sessionVars, callVars>>
counts == <<calls, mailed, kills>>
ghosts == <<delivered, refused, returned, lost>>
others == <<lock, box, mail, mailed, kills, ghosts>>
post == <<others, calls>>
vars == <<repl, post>>

NoReply == [asked |-> 0, of |-> 0, out |-> <<>>, upset |-> TRUE]
NoCall == [op |-> None, stage |-> "idle", msg |-> 0, copy |-> <<>>]
Idle(p) == mail[p].stage = "idle" /\ (p = Owner => eval = "idle")
Calls(p) == Idle(p) /\ calls < MaxCalls /\ calls' = calls + 1

Fresh ==
    /\ running' = 0 /\ printed' = 0 /\ input' = <<>> /\ output' = <<>>
    /\ torn' = FALSE /\ upset' = FALSE

Init ==
    /\ limited \in BOOLEAN
    /\ open = FALSE /\ shell = "none" /\ running = 0 /\ printed = 0
    /\ input = <<>> /\ output = <<>> /\ torn = FALSE /\ upset = FALSE
    /\ eval = "idle" /\ asked = 0 /\ got = <<>> /\ reply = NoReply
    /\ lock = None /\ box = <<>> /\ mail = [p \in Procs |-> NoCall]
    /\ calls = 0 /\ mailed = 0 /\ kills = 0
    /\ delivered = {} /\ refused = {} /\ returned = [m \in 1..MaxCalls |-> 0] /\ lost = {}

-----------------------------------------------------------------------------
\* REPL sessions

Line(kind) == [kind |-> kind, eval |-> running]

\* execute_repl_start: a bash of its own.  An id in use is refused.
ReplStart ==
    /\ Calls(Owner) /\ ~open
    /\ open' = TRUE /\ shell' = "alive"
    /\ Fresh
    /\ UNCHANGED <<limited, callVars, others>>

\* execute_repl_eval sends the code and the command that prints the sentinel,
\* which is not timed by the eval's own timeout, ...
Eval ==
    /\ Calls(Owner) /\ open
    /\ eval' = "writing" /\ asked' = asked + 1 /\ got' = <<>> /\ reply' = NoReply
    /\ UNCHANGED <<limited, sessionVars, others>>

Written ==
    /\ eval = "writing" /\ shell = "alive" /\ Len(input) < PipeCap
    /\ input' = Append(input, asked)
    /\ eval' = "reading"
    /\ UNCHANGED <<limited, open, shell, running, printed, output, torn, upset, asked,
                   got, reply, post>>

Returns(r) == eval' = "idle" /\ reply' = r /\ UNCHANGED <<limited, asked, post>>

SendFails ==
    /\ eval = "writing" /\ shell = "dead"
    /\ Returns(NoReply)
    /\ UNCHANGED <<sessionVars, got>>

\* ... and reads up to a line that is the sentinel's.
GetsLine ==
    /\ eval = "reading" /\ output # <<>>
    /\ output' = Tail(output)
    /\ LET line == Head(output) IN
         IF line.kind = "sentinel"
         THEN /\ Returns([asked |-> asked, of |-> line.eval, out |-> got, upset |-> upset])
              /\ UNCHANGED got
         ELSE /\ got' = Append(got, line.eval)
              /\ UNCHANGED <<limited, eval, asked, reply, post>>
    /\ UNCHANGED <<open, shell, running, printed, input, torn, upset>>

\* A wrong end: the end of bash's output is taken for the end of the eval's.
StdoutClosedAsDone ==
    /\ eval = "reading" /\ output = <<>> /\ shell = "dead"
    /\ Returns([asked |-> asked, of |-> 0, out |-> got, upset |-> upset])
    /\ UNCHANGED <<sessionVars, got>>

\* bash has exited.  The session stays, and every later eval fails.
StdoutClosed ==
    /\ eval = "reading" /\ output = <<>> /\ shell = "dead"
    /\ Returns(NoReply)
    /\ UNCHANGED <<sessionVars, got>>

\* A line is read that is not UTF-8.  The eval breaks off; what bash has still to
\* print for it, its sentinel too, is left for the next one.
ReadBreaks ==
    /\ eval = "reading" /\ output # <<>> /\ Head(output).kind = "text"
    /\ output' = Tail(output)
    /\ upset' = TRUE
    /\ Returns(NoReply)
    /\ UNCHANGED <<open, shell, running, printed, input, torn, got>>

\* The read is dropped, and with it what it had of a line.
Abandon ==
    /\ upset' = TRUE
    /\ torn' \in (IF eval = "reading" /\ output = <<>> /\ running # 0 THEN BOOLEAN ELSE {torn})
    /\ Returns(NoReply)
    /\ UNCHANGED <<open, shell, running, printed, output, got>>

EvalTimesOut == eval = "reading" /\ Abandon /\ UNCHANGED input

\* The call as a whole is dropped: some or none of a payload was written.
CallDropped ==
    /\ eval \in {"writing", "reading"}
    /\ input' \in (IF eval = "writing" THEN {input, Append(input, asked)} ELSE {input})
    /\ Abandon

CallTimesOut == limited /\ CallDropped

Cancel == CallDropped

\* execute_repl_close takes the session out of the map, then writes `exit`.
Close ==
    /\ Calls(Owner) /\ open
    /\ open' = FALSE /\ eval' = "closing" /\ reply' = NoReply
    /\ UNCHANGED <<limited, shell, running, printed, input, output, torn, upset, asked,
                   got, others>>

\* Written, refused, timed out or cancelled: the session is dropped.
Closed ==
    /\ eval = "closing"
    /\ shell = "dead" \/ Len(input) < PipeCap \/ limited
    /\ Returns(NoReply)
    /\ shell' = "none" /\ Fresh
    /\ UNCHANGED <<open, got>>

CloseCancelled ==
    /\ eval = "closing"
    /\ Returns(NoReply)
    /\ shell' = "none" /\ Fresh
    /\ UNCHANGED <<open, got>>

-----------------------------------------------------------------------------
\* bash: takes up a payload, prints, and prints the sentinel; or the code takes
\* the sentinel's command for its own input, or exits, or never ends.

Shells == UNCHANGED <<limited, open, upset, callVars, post>>

ShellTakes ==
    /\ shell = "alive" /\ running = 0 /\ input # <<>>
    /\ running' = Head(input) /\ input' = Tail(input) /\ printed' = 0
    /\ UNCHANGED <<shell, output, torn>> /\ Shells

ShellPrints ==
    /\ shell = "alive" /\ running # 0 /\ printed < MaxLines
    /\ output' = Append(output, Line("text"))
    /\ printed' = printed + 1 /\ torn' = FALSE
    /\ UNCHANGED <<shell, running, input>> /\ Shells

\* What is left of a torn line is not the sentinel's.
ShellDone ==
    /\ shell = "alive" /\ running # 0
    /\ output' = Append(output, Line(IF torn THEN "text" ELSE "sentinel"))
    /\ running' = 0 /\ torn' = FALSE
    /\ UNCHANGED <<shell, printed, input>> /\ Shells

ShellSwallows ==
    /\ shell = "alive" /\ running # 0
    /\ running' = 0
    /\ UNCHANGED <<shell, printed, input, output, torn>> /\ Shells

ShellExits ==
    /\ shell = "alive" /\ running # 0
    /\ shell' = "dead" /\ running' = 0
    /\ UNCHANGED <<printed, input, output, torn>> /\ Shells

Shell == ShellTakes \/ ShellPrints \/ ShellDone \/ ShellSwallows \/ ShellExits

-----------------------------------------------------------------------------
\* Mailboxes

At(p, stage) == mail[p].stage = stage
Goes(p, stage) == mail' = [mail EXCEPT ![p].stage = stage]
Begins(p, op, msg) ==
    /\ Calls(p)
    /\ mail' = [mail EXCEPT ![p] =
                     [op |-> op, stage |-> "locking", msg |-> msg, copy |-> <<>>]]

\* execute_send_message and execute_recv_messages with `drain`.
Send(p) ==
    /\ Begins(p, "send", mailed + 1)
    /\ mailed' = mailed + 1
    /\ UNCHANGED <<repl, lock, box, kills, ghosts>>

Drain(p) ==
    /\ Begins(p, "drain", 0)
    /\ UNCHANGED <<repl, lock, box, mailed, kills, ghosts>>

\* A wrong lock: a file that is in the way is taken for a dead owner's.
LockStolen(p) ==
    /\ At(p, "locking")
    /\ lock' = p
    /\ Goes(p, "locked")
    /\ UNCHANGED <<repl, box, counts, ghosts>>

\* acquire_file_lock: nobody else's file is in the way.
Lock(p) ==
    /\ At(p, "locking") /\ lock = None
    /\ lock' = p
    /\ Goes(p, "locked")
    /\ UNCHANGED <<repl, box, counts, ghosts>>

Refused(p) == IF mail[p].op = "send" THEN refused \cup {mail[p].msg} ELSE refused

\* A wrong wait for the lock: it has no end.
LockAwaited(p) ==
    /\ At(p, "locking") /\ lock # None
    /\ UNCHANGED vars

\* Two seconds are over: the file may be that of a process that is gone.
LockTimesOut(p) ==
    /\ At(p, "locking") /\ lock # None
    /\ mail' = [mail EXCEPT ![p] = NoCall]
    /\ refused' = Refused(p)
    /\ UNCHANGED <<repl, lock, box, counts, delivered, returned, lost>>

Load(p) ==
    /\ At(p, "locked")
    /\ mail' = [mail EXCEPT ![p].stage = "loaded", ![p].copy = box]
    /\ UNCHANGED <<repl, lock, box, counts, ghosts>>

\* write_json replaces the file in one step, or fails and leaves it.
Store(p) ==
    /\ At(p, "loaded")
    /\ box' = IF mail[p].op = "send" THEN Append(mail[p].copy, mail[p].msg) ELSE <<>>
    /\ Goes(p, "stored")
    /\ UNCHANGED <<repl, lock, counts, ghosts>>

StoreFails(p) ==
    /\ At(p, "loaded")
    /\ Goes(p, "failed")
    /\ UNCHANGED <<repl, lock, box, counts, ghosts>>

\* The guard removes the lock file, and the call returns.
Copied(p) == {mail[p].copy[i] : i \in 1..Len(mail[p].copy)}

Unlock(p) ==
    /\ mail[p].stage \in {"stored", "failed"}
    /\ lock' = None
    /\ mail' = [mail EXCEPT ![p] = NoCall]
    /\ LET call == mail[p] IN
         /\ refused' = IF call.stage = "failed" THEN Refused(p) ELSE refused
         /\ delivered' = IF call.stage = "stored" /\ call.op = "send"
                         THEN delivered \cup {call.msg} ELSE delivered
         /\ returned' = IF call.stage = "stored" /\ call.op = "drain"
                        THEN [m \in DOMAIN returned |->
                                 returned[m] + IF m \in Copied(p) THEN 1 ELSE 0]
                        ELSE returned
    /\ UNCHANGED <<repl, box, counts, lost>>

\* A process is killed, and another one starts: locks stay, sessions do not.
ProcessKilled(p) ==
    /\ kills < MaxKills /\ kills' = kills + 1
    /\ mail' = [mail EXCEPT ![p] = NoCall]
    /\ lost' = IF mail[p].op = "drain" /\ At(p, "stored") THEN lost \cup Copied(p) ELSE lost
    /\ IF p = Owner
       THEN /\ open' = FALSE /\ shell' = "none" /\ Fresh
            /\ eval' = "idle" /\ reply' = NoReply
            /\ UNCHANGED <<limited, asked, got>>
       ELSE UNCHANGED repl
    /\ UNCHANGED <<lock, box, calls, mailed, delivered, refused, returned>>

-----------------------------------------------------------------------------

Mail(p) == Lock(p) \/ LockTimesOut(p) \/ Load(p) \/ Store(p) \/ StoreFails(p) \/ Unlock(p)
Read == GetsLine \/ StdoutClosed \/ ReadBreaks \/ EvalTimesOut
Write == Written \/ SendFails \/ CallTimesOut \/ Closed

\* Every call has been made.
Over == Idle(Owner) /\ (\A p \in Procs : Idle(p)) /\ UNCHANGED vars

Next ==
    \/ ReplStart \/ Eval \/ Written \/ SendFails \/ GetsLine \/ StdoutClosed
    \/ ReadBreaks \/ EvalTimesOut \/ CallTimesOut \/ Cancel
    \/ Close \/ Closed \/ CloseCancelled
    \/ ShellTakes \/ ShellPrints \/ ShellDone \/ ShellSwallows \/ ShellExits
    \/ \E p \in Procs :
          \/ Send(p) \/ Drain(p) \/ ProcessKilled(p)
          \/ Lock(p) \/ LockTimesOut(p) \/ Load(p) \/ Store(p) \/ StoreFails(p) \/ Unlock(p)
    \/ Over

Spec == Init /\ [][Next]_vars

\* A process gets on with its calls, and its timers fire.  bash may never do
\* anything again, nor whoever made a lock file.
LiveSpec == Spec /\ WF_vars(Read) /\ WF_vars(Write) /\ \A p \in Procs : WF_vars(Mail(p))

-----------------------------------------------------------------------------
\* Properties

\* An eval that gets to its sentinel returns what its own code printed, all of it
\* and nothing else, in every session in which none was given up and none broke off
\* at a line that is not UTF-8; and so does one in a session started afresh after
\* that.  (execute_repl_eval, whose advice to close the session comes with a
\* timeout only: after a line that cannot be read, the next eval takes the rest
\* of the last one's output for its own.)
OwnOutput ==
    ~reply.upset =>
        /\ reply.of = reply.asked
        /\ reply.out = [i \in 1..printed |-> reply.asked]

\* Whoever is killed, and wherever, a message reported delivered is in the mailbox
\* until one drain returns it, or one that is killed takes it along; no message is
\* returned twice or comes back; and one that was refused is nowhere.
MailKept ==
    LET held == {box[i] : i \in 1..Len(box)} IN
    /\ Cardinality(held) = Len(box)
    /\ \A m \in 1..mailed :
          /\ returned[m] + (IF m \in held THEN 1 ELSE 0) + (IF m \in lost THEN 1 ELSE 0) <= 1
          /\ m \in delivered => returned[m] = 1 \/ m \in held \cup lost
                                 \/ \E p \in Procs : /\ At(p, "stored") /\ mail[p].op = "drain"
                                                     /\ m \in Copied(p)
          /\ m \in refused => returned[m] = 0 /\ m \notin held \cup lost

\* Every call comes back (as only so many are made, none is under way time and
\* again): one that wants the lock of a process that is gone, one whose bash never
\* answers, and, as long as tool_timeout_secs is set, one that bash does not read.
CallsEnd ==
    []<>(/\ \A p \in Procs : At(p, "idle")
         /\ eval = "idle" \/ (~limited /\ eval \in {"writing", "closing"}))
=============================================================================
