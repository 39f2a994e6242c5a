# TLA+ models of cubi

`cubi` is a terminal coding agent written in Rust: a chat loop (a REPL, a
full-screen terminal UI or a one-shot headless run) that sends a conversation to
a language model, runs the tools the model asks for, and keeps sessions,
receipts, settings and an undo journal on disk. This directory holds TLA+ models
of its core logic, the instances TLC checks, and proofs TLAPS checks.

Paths below are relative to the repository's `src/` crate directory unless they
begin with `docs/`. `PROJECT.json` gives, for every definition, the lines of
code it stands for; for every property the run that checks it and a wrong
version of the code that it catches; and for every hazard the line where it
bites.

## The system

| Component | State it keeps | Operations | What must be right |
| --- | --- | --- | --- |
| Agent loop (`cli/agent.rs`) | the conversation, step and error counters, the turn's start | auto-compact, budget check, request, tool calls in order, cancel, caps | what is sent and saved is a well-formed conversation; a cancel restores it; a turn ends |
| Conversation commands (`cli/mod.rs`, `script.rs`) | the same conversation, its pins, the current session | `/clear`, `/model`, `/ask`, `/plan`, `/compact`, `/rewind`, `/history`, `/pin`, `/memdir-*`, `/load`, `/resume`, `/fork`, reviews, skills, `/agent`, `/mcp reload` | no command leaves calls without results, loses a pin, or reaches beyond its turns |
| Subagents in the process (`agent_loop.rs`) | a conversation of their own, dropped at the end | request, tools, step cap | they end with their turn, and what they wrote can be undone with it |
| File journal (`file_rollback.rs`) | buckets of pre-images, one per turn | record, rewind, discard an empty bucket, reset | a rewind restores what was there when the turn began |
| Receipts (`receipts.rs`) | a hash-chained log, a userspace buffer, payload sidecars | open and recover the tip, write, flush, verify | one chain over sessions, crashes and failing disks; no event lost once written |
| MCP manager and clients (`mcp_manager.rs`, `mcp_client.rs`) | clients, pipes, tool table, failed servers | load, discover, call, timeout, reconnect and retry, list, reload | a call gets its own reply, runs once, ends; no tool on offer is out of reach |
| Sessions (`sessions.rs`) | checkpoint files, one index, the current session | save, list, delete, prune, resume, rebuild | the index matches the files; a prune takes old sessions only; a resume opens the newest |
| Process subagents (`proc_subagent.rs`) | a child, its stdout, timers | start, wait, kill, drain, parse | the call ends in time; a cut answer is no success; no child outlives the call |
| Consensus (`consensus.rs`), worktrees (`worktree_session.rs`) | permits, answers, worktrees, branches | ask, collect, arbitrate, cancel, clean up | each answer in its place, a verdict that stands on them, nothing left behind |
| Terminal UI (`cli/tui/`) | the render task, its channels, who owns the terminal, the transcript; the input line, recall, the picker | suspend, capture, resume, quit; keys | one owner of the terminal, neither task waits for ever, an answer stands under its prompt; text typed is not lost |
| Model clients (`llm.rs`, `ollama.rs`, `thinking_filter.rs`) | a request's tries, a reply as it comes | retry, stream, assemble calls, strip reasoning | chunking does not show; what is kept is what was shown; tries end, if the server answers them |
| REPLs and mailboxes (`builtin_tools.rs`) | a bash on two pipes, a file under a lock file | start, eval, close; send, drain | an eval returns its own output unless one before it broke off; no mail lost or read twice; every call ends |
| JSON stores (`permissions.rs`, `todos.rs`, `memdir.rs`, `onboarding.rs` and others) | one file each, a copy in memory | load, change, save, sync | a save takes back nothing its process had seen |
| Programs run by tools (`builtin_tools.rs`, `lsp_client.rs`) | a shell or a language server on pipes | one command; initialize, query, shutdown | the answer is the query's; a timeout or a cancel ends the call |
| Benchmarks (`bench.rs`, `swebench.rs`) | a tree, a home and a child per task, event logs, results | prepare, run under a cap, verify; take the diff, put the tests in, score | a score and a prediction stand on the work of their own child |
| Tool gate (`permissions.rs`, `hooks.rs`, `policy.rs`) | permissions, hooks, managed policy, plan mode | check before each tool call | a refusal anywhere refuses |

The rest (other tools, command line and start-up, traces, rendering) keeps little or no state of its own between commands; `PROJECT.json`
lists each with the reason it is left out.

How they interact. A front end (REPL, TUI, headless) opens a turn: it pushes the
user's message, opens a journal bucket and calls `agent_turn`. The loop asks the
model over HTTP, and for each tool call passes the gate, then a built-in tool
(which records pre-images in the journal, or runs a subagent or a consensus of
several) or the MCP manager (which writes to a server's pipe and waits). Each
step leaves a receipt; the end of the turn saves a checkpoint. In the TUI a
render task runs beside it, draws what it is sent over a channel and sets the
cancel flag. Files in `~/.cubi` and the receipts log may be shared with other
cubi processes.

What makes it hard: futures dropped at any await, by a Ctrl-C or a wall-clock
cap, while jobs on blocking threads run on; replies that come after their
request was given up; a process killed, or left by `process::exit`, with a
buffer unwritten; a child whose own children hold its pipes; a disk that fails in the middle of a line; two processes over
one file with no lock; two tasks that wait for each other's word; state computed
before something that shortens it; text cut anywhere by a stream.

## The modules

| Module | Models | Kind |
| --- | --- | --- |
| `FileJournal` | the journal and the two tools that feed it | component |
| `AgentTurn` | the agent loop, in-process subagents and the conversation commands, on top of `FileJournal` | composition |
| `AuditLog` | what a receipts log promises | abstract |
| `Receipts` | the log, its buffer, sidecars, sessions and verifier; shown to implement `AuditLog` | component |
| `Mcp` | manager, clients, pipes, servers | component |
| `Sessions` | checkpoints, the index and the processes that use them | component |
| `ChildRun` | what the caller of a headless child may rely on | abstract |
| `ProcSubagent` | one isolated subagent; shown to implement `ChildRun` | component |
| `Bench` | the two benchmark harnesses; each task's child shown to keep to `ChildRun` | component |
| `Programs` | a shell command, or a language server's query | component |
| `Worktrees` | ephemeral worktrees and their clean-up | component |
| `Consensus` | a run over several models, on top of `Worktrees`; each of its children shown to keep to `ChildRun` | composition |
| `Tui` | main and render task, the terminal, the transcript | component |
| `Composer` | the input line of the terminal UI | component |
| `Stream` | one request to a model and its reply | component |
| `BuiltinTools` | REPL sessions and mailboxes | component |
| `Stores` | the JSON files every process shares | component |
| `Subsequences` | what is left of a sequence when some of it goes | operators |
| `Children` | `ProcSubagent` and `Bench` as two callers with one contract | composition |
| `MC*` | the instances TLC checks | instances |
| `SubsequencesProofs` | lemmas about subsequences and induction, which the other proofs cite | proofs |
| `AgentTurnProofs` | theorems about `FileJournal` and `AgentTurn` | proofs |
| `CallsProofs` | theorems about `ProcSubagent`, `Bench`, `Programs`, `Stores`, `BuiltinTools` and `Stream` | proofs |
| `TuiProofs` | theorems about `Tui` and `Composer` | proofs |
| `ConsensusProofs`, `McpProofs`, `ReceiptsProofs`, `SessionsProofs` | theorems about the module of that name | proofs |

### FileJournal

`turns` is `JournalInner.turns`, a bucket being a function from paths to the
pre-image held, or `NoSnap`; `files` is the disk. `StartTurn`, `Record`,
`Rewind`, `DiscardLastTurnIfEmpty` and `Reset` are the methods; `WriteFile` and
`EditFile` are the tools, which write first and record after. A write may fail
half way (`WriteFails`), anything else may change files (`ForeignWrite`) and any
restore may fail: the ghost `drift` names the paths of which the journal cannot
know, and `starts` remembers the disk at each turn's start.

### AgentTurn

`pc` follows the awaits of `agent_turn`: `compacting` (the summarizer), `begin`,
`model` (the request), `tool`, and inside a tool that is a subagent `submodel`
and `subtool`; between two awaits all is one action. A message is its role, a
tag and a number (the calls it makes, or the call it answers). `Submit` is the
three ways a turn is opened, which differ in where a cancel truncates to;
`AutoCompactDone`, `BudgetRefuse`, `BeginTurn`, `ModelReply`, `ModelFails`,
`CallStarts`, `SubReply`, `SubToolsDone`, `CallEnds` are the loop and the loop
within it; `CancelTurn` is SIGINT or the flag that `PressCtrlC` sets;
`TimeCapHit` the wall clock of a nested run. The commands are actions at `idle`;
those that only put a message in or take some out are `Quick`. A review asks the
model outside the loop (`Review`, `ReviewEnds`, `ReviewDropped`), and `Restart`
is a kill followed by a resume of the last checkpoint. Token counts and time are
choices, and so is the gate: it stands before the loop's own calls only, and its
refusal is one of a call's results. Premises name what the code is known to
give up: `severed` (a cut between a call and its result, or a review whose reply
makes calls), `compacted`, `wiped` (a dropped conversation with pins on the
list).

### Receipts and AuditLog

The file is its terminated `lines` and the `cut` one after them. A hash is the
sequence of what it covers, so equal hashes mean equal histories. A write goes
in the order of the code: the sidecar (created, then filled), the line into the
buffer, the flush when it is due. A failing flush leaves any number of whole
lines and part of the next; what had no room stays in the buffer and goes out at
`Close` (Drop). `Die` is a kill or `process::exit`. `AuditLog` knows three
things only: what can be read, what is queued, and that all promises are off
once a write failed.

### Mcp

Pipes are sequences of lines, each being what it is to the request that waits:
its own reply, an older one's, a note, or the tail of a line. `Ask`/`Listed` are
discovery and listings, `CallTool`, `Receive`, `Eof`, `HttpReply`, `Timeout`,
`Cancel`, `Reconnect`, `ReconnectFails` the life of a call. `Receive` takes any
prefix of the waiting lines, of which all but the first are lost with the
per-request `BufReader`. `Load` is start-up and `/mcp reload`.

### Sessions

`files` maps a bucket and an id to a checkpoint, `index` is `index.json`.
Each process is in at most one `call`, which takes one step per look at, or
change of, the disk: read the index, count files, compare, scan, write. What a
save, list, delete, prune or resume does then is an action of its own. A call
may be killed anywhere, a checkpoint may be damaged. `/fork` is a save, a new
chat and a save. The ghost `quiet` says that no file came or went since a call
began to load the index, `alone` that calls never overlapped and none was killed.

### ProcSubagent and ChildRun

The caller's future is where it waits (`run_binary_isolated`: the `select!` of
exit, cap and failure; the kill and its grace; the drain); the reader of stdout
is a task of its own, bounded by `OutputLimit`; the child writes, exits, is
killed, or hands its stdout to a process that keeps it open. Output is a
sequence of events, of which `Parsed` makes text, success or error by the rules
of `parse_subagent_stream`. `Tick` runs the pending timer down and never past
its end, so that a late exit and a timeout meet. `ChildRun` is the contract: the
call answers once, with no child it has not condemned alive, and a success only
of a child that ended by itself.

### Bench

`setup` is the harness with its flags, `task` the task at hand, `stage` what the
harness waits for. The child may edit, commit, log, exit by itself or be killed
in the middle of a line of its log. `tree` is what was done to the checkout,
`head` what of it is committed, so that `Diff` is what git shows. In `bench` only
the log matters, in `swebench` only the tree. `Conclude` is what each way through
`run_one_task` and `run_one_instance` comes to: one result, and in `swebench` one
prediction, empty or not. `old` is what an earlier run left in the directory's
logs, `did` what the child did log.

### Programs

A shell command ends when the shell and all that holds its output have ended
(`wait_with_output`). A language server is asked three times; `ReadFrame` is
`read_response_for`, which matches by the number alone, `Onward` and `Broken` what
follows, and an error of the stream waits for the end of stderr (`Drained`).
`GiveUp` drops the future: the shell dies with it, the language server does not.

### Worktrees and Consensus

A worktree is its directory, its registration and its branch; provisioning and
clean-up are one git command a step, and the removal of the parent directory the
last, on a thread that no cancel stops. Any of them may fail; `botched` holds the
sessions (`MaxFaults` at most) whose clean-up did, at one step or several, and
whose directory, registration or branch may stay. In `Consensus` each candidate walks
through its `stage`s under permits: asked side by side (`llm`), one after
another on one tree (`tools`), or each as a child in a worktree (`isolated`).
`Collect` puts the answers that `arrived` in the order asked; `Vote`, `Pick` and
`Grade` are the strategies with their fallbacks; `Cancel` drops the future, and
with it every candidate that waits. The child of a candidate is the variable
`child`, which must behave as `ChildRun` says: `ChildrenKeepContract` is the
refinement, one instance for each candidate.

### Tui

`main` and `render` are the two tasks; `events`, the submitted lines and the
control channel are between them. `Park`, `Unpark` and `Released` are the render
task's half of lending the terminal, `Command`, `AckReceived`, `AckLost`,
`Reenter` main's. `terminal` says who reads keys, who draws and where output
goes. `transcript` is what the user sees, a row for each message, headed by whose
it is; `Submit` draws the prompt at once, the rest comes by `Draw`. The render
task may quit (`CtrlD`, `RenderEnds`) or die (`RenderDies`) at any point.

### Composer

`composer` is a sequence of symbols, `cursor` a byte offset, with one symbol two
bytes wide; `Upto` and `From` are slices, defined only on a symbol's edge, where
the code would panic off one. One action for each key. `refresh_picker` is
`Refresh`, called wherever the code calls it: after an edit, a whole new text and
a completion, but not by `picker_accept`. The ghosts `draftWas` and `mended`
remember what recall began from and whether a recalled line was completed.

### Stream

A request's tries, then the reply as one body or a stream of pieces cut
anywhere, text and parts of tool calls mixed, from either client (`provider`).
A tag of the thinking filter is three symbols; `StripThinking` is the one-shot
stripper over the whole text, `Filtered` the state machine fed piece by piece,
`Flushed` what it gives up at the end. Both are recursive functions. `Answers` is
what the caller keeps, which must be what was shown. `raw` is the text in whole
lines: a last line without a line end is dropped by the OpenAI client and is no
part of it. `Answering` says that the server answers; only the property that needs
it, `RequestEnds`, assumes it.

### BuiltinTools

One REPL session: `Owner`'s call, bash's two pipes, the sentinel each eval ends
with, and bash that swallows it, exits, hangs, or prints a line that is not UTF-8
(`ReadBreaks`). One mailbox: each process
takes the lock file, loads, changes and replaces the file, and lets go, and may
be killed between any two of these. The ghost `upset` says that an eval of the
session was given up or broke off; others say which payloads were sent and handed
over.

### Stores

One store a behaviour, its file's `content` a set of entries, `Cut` (truncated),
`Garbled` or `Missing`. The kinds are sets a store is in: `Held` ones are read at the
start of a process and rewritten from memory, `Strict` ones refuse a file that
does not parse, and so on. `Asks`, `Locks`, `Changes`, then `Replace` or
`Truncate` and `Fills` are one command. A start saves a config without a current
`config_version` (`Stamp`, an entry), and whoever finds no `mcp.json` makes one
(`Creates`, or the start); no file of another kind is an empty store. `Begin`, `Killed`, `SaveFails`,
`Pushes` and `Pulls` what may come between. The ghost `seen` holds the entries
of which a process has read the latest, `touched` those it has itself changed.

## What is checked

Between them the passing runs take every action of every module.

| Run | States | What it shows | Bounds, and why they are enough |
| --- | --- | --- | --- |
| `turn` | 727 thousand | requests carry every pin, saved conversations and ended turns are well formed; receipts pair up; a cancel restores; the error valve fires exactly at its cap | REPL and headless, chat and `/agent`, every command except `/model` and reload; two steps of two calls, an error cap of three, so that errors span messages; at most three messages when a turn opens, two kept by a compaction, one pin |
| `journal` | 422 thousand | the loop and the journal together: tool edits stay exact, a cancel drops only its own empty bucket, turns end | TUI, chat and skill turns with subagents of two steps, `/clear`, `/model`, `/rewind`, reload, `/resume`, reviews; one file, one call a message |
| `log` | 128 thousand | one chain over sessions; verifiable up to a tear, payloads stored before they are named; edits are noticed; the log implements `AuditLog` | two sessions in a row or overlapping, four records, a flush every second one: every place a session can die or a write fail, relative to a flush |
| `servers` | 324 thousand | a call's own reply, no tool run twice, tools within reach, calls and listings end | one stdio and one HTTP server that share a tool name with the built-ins; two lines in a pipe besides the request: a late reply and a note at once |
| `sessions` | 582 thousand | a quiet load misses no checkpoint; the index is true; a prune takes no new session, a resume opens the newest | two processes in any two directories, two ids, two seconds, three calls: two saves and a third call over what they left, in any interleaving |
| `consensus` | 463 thousand | the verdict stands on answers in their places, work is kept apart, everything settles after any end but for what failing steps of a clean-up leave, and each child keeps its contract | three models, so that a majority, a tie and a lone survivor exist; both no limit and a limit of two at once; the clean-up of one candidate may fail at each step; scores and edits of none or one |
| `tui` | 373 thousand | one owner of the terminal, transcript true, a Ctrl-C meets its turn, nobody waits for ever; no typed text lost, picker in bounds | two lines of any kind, one Ctrl-C, one tool call; six keys, enough to type, recall, change, accept and return |
| `calls` | 1.12 million | four callers apart from each other. A reply: stripping in pieces is stripping the whole, what is returned is what was shown. A subagent: what counts as a success. A benchmark: scores and predictions stand on their own child. A tool's program: its answer is the query's. Both waits for a child implement `ChildRun`; a subagent's call ends in time, a benchmark's and a tool's end, and so do a request's tries if the server answers them | nine symbols in pieces of one or two: a tag is three, so that one pair of tags has text around it, and a tag's pieces can stand around another tag; one retry, one call of two parts. Two ticks of cap and one of each grace, so that every timer can meet every event; three events, an output limit of two. Two tasks, so that one's remains can meet the other; one step. Three frames in the pipe: an answer, an older one's and a stray |
| `tools` | 869 thousand | an eval's own output in a session where none broke off, no mail lost or doubled, calls end; a rewind is exact and undoes what it drops; a save takes back nothing its process has seen | three parts side by side that share no state. Two processes, a pipe of one line, five calls, one kill; the journal over two files, two contents and two buckets, the first size where an older pre-image must win over a newer one; each store with two processes, two entries, three starts and two changes |

`MCTui`, `MCBuiltinTools` and `MCCalls` choose in their initial state which part a
behaviour takes; the other parts stand still.

Each run's properties are invariants, except `DroppedTurnsUndone`,
`CancelRestores`, `CancelKeepsBuckets`, `OwnAnswers`, `IndexTrusted`,
`CancelMeetsItsTurn`, `InputKept` and `TakesBackUnseen` (what a step may never
do), `KeepsPromise`, `KeepsContract` and `ChildrenKeepContract` (refinement) and
`TurnsEnd`, `AsksEnd`, `Settles`, `NobodyWaitsForEver`, `CallsReturn` and
`CallsEnd` (liveness).

Symmetry is used in runs without liveness, over values the models only compare
for equality. Deadlock is checked everywhere but in `log`: there all sessions may
be over. Elsewhere what has come to its end, a one-shot run that exited, an
answered call or a UI that was left, stutters by an action of its own.

### Fairness

| Specification | Fair | Not fair, and why it is right |
| --- | --- | --- |
| `AgentTurn!LiveSpec` | the loop's own steps, a running task, whose summarizer has a timeout; in the TUI the cancel, as its `select!` polls the flag every 50 ms | model, tools and the person get none. `TurnsEnd` assumes that model and tools answer (`Answering`) where it says that turns end, and assumes nothing where it says a Ctrl-C ends them |
| `Mcp!LiveSpec` | the manager when there is a line or an end of stream, timers, a reconnect, which has 1.5 s | servers: calls end though none answers; for listings, which have no timeout, `AsksEnd` assumes they answer |
| `MCCalls!MCSpec` | what `ProcSubagent`, `Bench` and `Programs` have, each for the caller that runs | requests |
| `ProcSubagent` | the caller, end of file, the clock | the child, the kill's effect, whoever holds the child's stdout |
| `Consensus` | each candidate's next step, which every mode bounds, and `Collect` | cancels and failures |
| `Tui` | either task when it can go on | the model, commands, the user |
| `Stream` | nothing: neither client sets a timeout. `RequestEnds` assumes (`Answering`) that the server accepts or refuses each request and sends each body or breaks it off | how long a stream goes on |
| `Bench` | the harness, and the end of a killed child; verify.sh, git and pytest are steps of the harness, though they have no cap | what the child does while it lives |
| `Programs` | the timeout | the program, whatever it started, and each frame |
| `BuiltinTools` | an eval's read, which has a deadline, the write to its pipe, each process's steps on a mailbox | bash, and a process that left its lock behind |
| `Stores` | a process at its own steps, in `worktree_trust` only | kills and syncs |

### Where the code differs from what it says

Three runs are expected to be violated; each quotes the sentence it tests.

| Run | Sentence | What happens |
| --- | --- | --- |
| `compact_cancel` | "Truncate the history back to the pre-turn snapshot" (`cli/agent.rs:510`) | the snapshot is an index taken before an auto-compaction shortened the history: a cancel leaves messages of the turn |
| `worktree_trust` | "Persist the new trust entry so the approval survives a CLI restart." (`builtin_tools.rs:1009`) | the `match` holds the lock of the store it was matched on while its arm takes that lock again: the thread hangs and nothing is saved. `/worktree add` takes the lock once |
| `swebench` | "Capture the working-tree diff (the agent's edit) as a unified patch." (`swebench.rs:616`) | a relative `--output`, which the default is, is handed to a child that runs in the checkout: its event log lands there, `git add -A` takes it in, and the prediction holds it. `bench.rs:408` makes the same path absolute, and says why |

Seen while modelling and not kept as runs. The models have what is in italics,
as a premise of a property or a behaviour no property excludes.

Turns and commands:
- *If a cancelled turn was the first, `/rewind` finds no message and returns
  before the journal* (`cli/mod.rs:4197`), though `cli/agent.rs:527` says that
  `/rewind` can undo its edits.
- *After `/mcp reload` the tools record into a journal of their own*
  (`cli/mod.rs:1604`), though `mcp_manager.rs:113` says it "is shared with the
  CLI"; the tool timeout goes back to its default as well.
- *A `/rewind` or `/compact` may cut between a call and its result, and a review's
  reply may carry a call read out of its text, which nobody answers* (`severed`,
  `compacted`).
- *`/clear`, `/model` and `/load` keep the list of pins though the pinned messages
  are gone* (`wiped`). *They, but for `/clear`, keep the journal, as does
  `/resume`: a later `/rewind` reaches turns of the conversation left behind.*
- `/load` keeps the current session, which the next checkpoint overwrites with
  the loaded conversation; `/clear` takes care not to (`cli/mod.rs:612`).
- *A cancelled `/agent` turn keeps its messages. A Ctrl-C during a compaction is
  cleared by the turn that follows.* A subagent's inner errors do not count
  towards the error valve, and its inner calls pass no gate.

Logs, servers, sessions:
- *A sidecar left torn by a kill is taken for stored, and the verifier finds
  tampering* (`receipts.rs:208`; `docs/headless.md:162`). *Two live sessions on
  one path fork the chain* (`overlapped`). *A torn last line keeps later sessions
  from logging* (`spoilt`). A last record longer than 64 KiB also defeats the
  fallback to a full read (`receipts.rs:405`).
- *A closed stream reads as an empty line, which is no dead transport*
  (`mcp_client.rs:227`), though `mcp_manager.rs:310` has it reconnect. *An HTTP
  server is given up when one connection is lost*, though `mcp_manager.rs:312`
  says it does not get that treatment. *A cancel during a reconnect leaves tools
  on offer without a client* (`orphaned`). *A server's tool that overrides a
  built-in's takes the built-in away when the server fails.*
- *A session resumed in another directory is saved there too, so that its full id
  is ambiguous for `/sessions delete`* (`sessions.rs:508`). `docs/sessions.md:8`
  has `--resume` take a prefix; the code wants the id.

Terminal and streams:
- *Lines typed ahead are processed even after Ctrl-D, and make the live transcript
  differ from the resumed one.* A captured command cannot be cancelled.
  `prompt_tool_approval` does not look at `in_capture`, though `capture.rs:47`
  says that handlers which would prompt do.
- *Completion by Tab does not end a recall, though `end_recall` is "Called on any
  edit" (`cli/tui/app.rs:804`): a recalled line that was completed is dropped by
  the next arrow key* (`mended`). *A recalled slash command opens the picker,
  which then takes the arrow keys. Enter in the picker runs a command without
  its typed arguments when the cursor has moved back.*
- Both clients decode each network chunk by itself, so that a character cut in
  two is garbled. *The OpenAI client takes a stream cut off between two lines for
  complete*, and drops, with no word, a last line that has no line end
  (`llm.rs:667`); the Ollama client reads that line (`ollama.rs:527`). *The Ollama
  client keeps the calls of its last chunk only, and strips twice.*
- *Both clients are `reqwest::Client::new()` (`llm.rs:282`, `ollama.rs:349`), which
  has no timeout: a server that accepts and keeps silent holds a request, and
  whoever waits for it, until it is cancelled.*

Tools and stores:
- *When bash prints a line that is not UTF-8 the eval ends in an error
  (`builtin_tools.rs:1408`), the session stays, and the next eval returns the rest
  of that one's output, and its exit code, as its own* (`upset`). A timeout says
  that the session may be inconsistent and should be closed; this error does not.
- *The results of the clean-up commands of a worktree and the removal of its parent
  directory are ignored (`worktree_session.rs:222`): what is left is left with no
  word* (`botched`).
- *`exit` leaves a session whose evals all fail. A process killed with the lock of
  a mailbox leaves it there for ever. An eval's own timeout covers its read only.*
- *Permissions, todos and memories are a copy from start-up: a change that another
  process makes, a revoked trust too, is undone by the next save* (`touched`,
  `seen`). *They are rewritten in place, so that a kill within a save loses the
  store*, though `permissions.rs:79` says a crash never loses an approval.
- *A `config.json` that does not parse is read as the defaults, and saved over at
  the next start* (`main.rs:1346`).
- `memdir.rs` documents a tool `memdir_write` that does not exist.

Children and programs:
- *A second `cubi bench` into one directory appends to the first one's logs, and
  counts the steps of both; a line torn by a kill swallows the next.*
- *What the agent committed is not in the prediction, as the diff is against HEAD;
  what git ignores is judged by the tests and not submitted.*
- A relative `--repos-root` passes its check and fails in the copy; a workdir is
  not kept when its task ends in a timeout or an error, whatever `--keep-workdir`
  says. *verify.sh, git and pytest have no cap.*
- *A language server's own request that bears the query's number is taken for the
  response* (`lsp_client.rs:382`), though the comment at `lsp_client.rs:391` has
  requests of the server skipped; *one that hangs at its shutdown costs the answer
  already there, and none is killed at the timeout. An error waits for the end of
  the server's stderr.*
- *A job that a shell command leaves in the background keeps the call to its
  timeout, and outlives it.*

## What is proved

For every value of the constants, under the assumption named in each component
(`JournalAssumption`, `AgentAssumption`, `ReceiptsAssumption`, `McpAssumption`,
`SessionsAssumption`, `WorktreesAssumption`, `ConsensusAssumption`,
`TuiAssumption`, `ProcAssumption`, `BenchAssumption`, `ProgramsAssumption`,
`StoresAssumption`, `ToolsAssumption`, `StreamAssumption`, `ComposerAssumption`:
markers are not values, sets that are counted are finite, bounds are numbers, the
two transports are disjoint, white space has more in it than the line end).
Fairness is in none of them: the theorems are about `Spec`, of which each
`LiveSpec` is a part.

### The journal and the loop (`AgentTurnProofs`)

| Theorem | States | Argument |
| --- | --- | --- |
| `JournalTypes` | `JTypeOK` | inductive as it stands |
| `RewindIsExact` | `RewindExact` | inductive with the types. A record only fills a gap in the newest bucket, with what the file holds, which is what older buckets lead back to already; dropping buckets keeps those below, and `Oldest` looks upward only, so what the dropped ones restored is what the kept ones' start needs |
| `DroppedTurnsAreUndone` | `DroppedTurnsUndone` | from `RewindExact` before the step |
| `AgentTypes` | `TypeOK` | inductive, with the types of the conversation |
| `ConversationIsWell` | `ConversationWell` | `AnsweredOK`: unless a cut has parted them, every call is answered at rest and at a request, and while a tool runs only its own message has calls to be answered (`Owing`). `PinsOK`: pinned items stand first, before where the turn began, in the conversation and in the file. `EndedOK`: an ended turn has left what it saved. What the commands keep of a conversation (`Compacted`, `Without`, `Unhinted`) is a subsequence with the answers still behind their calls |
| `ReceiptsTellTheTurn` | `ReceiptsTrace` | `LogOK`: each result stands behind its call, and the log ends in a call exactly while one runs or was dropped; `CountOK`: as many results as tool messages since the turn began |
| `ErrorsStopARun` | `ErrorValve` | `ValveOK`: the counter is the number of errors the conversation ends in, and any conversation a run may be cut back to ends in fewer than `ErrCap` (`Bearable`) |
| `CancelTakesBack` | `CancelRestores` | `OnTop`: without a compaction what the turn began with is still the start of the conversation |
| `CancelSparesBuckets` | `CancelKeepsBuckets` | `BucketOpen`: a turn that runs has one bucket, on top of those before it |
| `ToolEditsAreRewindable` | `ToolEditsRewindable` | inductive with the journal's types: a step of the loop is one of the journal, or leaves it alone, or resets it, or writes past it to a path which `unseen` then holds |

### Receipts, servers, sessions

| Theorem | States | Argument |
| --- | --- | --- |
| `ReceiptsTypes` | `RTypeOK` | inductive |
| `OneChainHolds` | `OneChain` | `ChainInv`: without overlap and failure at most one session lives, and file and buffer together are a chain whose tip and length it holds. The file alone is not enough: what is flushed later must link to it |
| `PromiseIsKept` | `KeepsPromise` | `WholeInv`: until a write fails the file holds whole records only, so that each flush appends the payloads queued; `Write` and `Close` advance, `Open` and `Die` lose the queue, the rest stutters |
| `VerifierIsRight` | `Verifiable` | `Tears` says where a torn line may stand and who is to write behind it, `Stored` which payloads that a line names may be missing, `OpenMakes` that only a session that is on stores one |
| `EditsAreSeen`, `LastLineFixesLog` | `TamperEvident`; equal ends mean equal files | a hash covers the one before it (`ChainCovers`, by induction on the length) |
| `McpTypes` | `McpTypeOK` | inductive with what each phase says of connections |
| `InStepHolds`, `RepliesAreOwn` | `InStep`, `OwnAnswers` | `TwoPipes` says which pipe holds the one line; a stale answer needs an old line at the head |
| `NeverTwice` | `AtMostOnce` | `Unsent`: a stdio reconnect under way means nothing was delivered |
| `ReachableTools` | `ToolsReachable` | `Trying`: a server being reconnected is not among the failed |
| `SessionTypes` | `STypeOK` | inductive |
| `LoadsAreExact` | `LoadedExact` | `LoadSound`: a quiet load has counted what exists, or holds all that can be read. Entries whose files exist are a subset of the files, so equal counts mean equal sets; once a file comes or goes no load under way is quiet |
| `IndexTellsTruth`, `IndexDecidesWell` | `IndexTrue`, `IndexTrusted` | `AloneSure`: what a call that is alone knows of the files, and the index but for what that call has still to put into it; it needs `Steady`, which holds of calls that are not alone too: a session keeps its directory, no checkpoint is of the future, and what removes files is a removal |

### Runs over several models (`ConsensusProofs`)

| Theorem | States | Argument |
| --- | --- | --- |
| `CandidatesApart` | `WorkApart` | `Ladder` (how far a candidate's job and child are at each stage), `Repository` (what a job has left in git), `Room` (no more candidates hold a permit than there are), `Turns` (changes of an in-process candidate are together) |
| `ConsensusTypes` | `ATyped` | inductive with the other parts of `CInv` |
| `VerdictHolds` | `VerdictStands` | `Advance` and `Arrivals` say who has arrived in each phase, and with what; `Verdict` what is decided of it so far |
| `ReturnsCleanAlways` | `ReturnsClean` | `Ladder` and `Repository` at the end of every stage: what is in git then is of a session whose clean-up went wrong |
| `ChildrenAreChildRuns` | `ChildrenKeepContract` | from `Ladder`: a step of a candidate is one of `ChildRun` for its child, and leaves the others' alone |

### Children, programs, tools, stores and streams (`CallsProofs`)

| Theorem | States | Argument |
| --- | --- | --- |
| `ProgramsAnswerTruly` | `ProgramAnswers` | `ServerInv`: what was taken from the pipe goes with the request that was sent last |
| `BenchScoresTruly` | `ScoresTrue` | `AgentInv`, `LogInv`, `TreeInv`: one child at a time, a log that nobody else wrote is whole until its writer is killed, and the diff is taken before the tests come in |
| `AnswersAreHonest` | `AnswerHonest` | `SuccessInv`: a success is of a child that ended by itself and of all that it wrote. That the parser's answer is the last one in a stream of events is shown by induction on the stream |
| `CallsTakeTheirTime` | `InTime` | `TimeInv`: the timers add up |
| `BenchKeepsContract`, `ChildrenKeepContract` | `TasksKeepContract`, `KeepsContract` | the initial state and every step, for each task |
| `EvalsReturnTheirOwn` | `OwnOutput` | in a session none of whose evals was given up or broke off. `CalmInv`: there nothing is under way at rest, and while an eval is read all that it printed is in what was got or in the pipe, the sentinel last; `ReplyInv`: while a reply stands its session does not move |
| `MessagesAreKept` | `MailKept` | `LockInv`: who works on the mailbox is its lock's owner, and what it has loaded is what is there; `SendInv`: a message on its way is nowhere but, once stored, in the mailbox; `PlaceInv`: every other one is in one place at most. A kill leaves the lock to nobody, so that it never lets a second process in |
| `SavesTakeBackUnseen` | `TakesBackUnseen` | `SeenInv`: what a process has seen and not changed itself is in its copy just when it is in the file. It holds of every store, whether its processes hold a copy or read it anew, and whoever is killed, saves or pulls in between |
| `RequestTypes` | `RTypeOK` | inductive as it stands |
| `StrippedWherever` | `StripsAsWhole` | `StreamInv`, whose `Agree` speaks of every text that may still come: whatever follows what was read, stripping it all at once leaves what was shown and then what a stripper, in the filter's state, leaves of what it keeps back and the rest. `StripsAsWhole` is the case where nothing follows, and is not inductive: what may follow decides whether what is kept back was a tag. `FeedIsWhole` carries `Agree` over one feed, by induction on what feed has left to look at |
| `ReplyKept` | `AnswerIsReply` | `StreamInv` at the end of the reply: the stripped text, or what normalizing made of it |
| `ShownOnce` | `NeverShownTwice` (a part of `CallsReturn`) | `StreamInv`: a whole body shows nothing, and a stream is past asking |

### The terminal (`TuiProofs`)

| Theorem | States | Argument |
| --- | --- | --- |
| `TerminalHasOneOwner` | `OneOwner` | `Handshake`: from the acknowledgement until main fires or drops `resume` the render task is parked without a reader, and at every other time the screen is its own |
| `CancelsMeetTheirTurn` | `CancelMeetsItsTurn` | `CancelOwn`: a turn begins with the flag cleared, and the press that sets it notes the turn |
| `TranscriptHolds` | `TranscriptTrue` | transcript and channel together: `Blocks` counts blocks over both; `Quiet` says that a text shown and not ended, or a token on its way, has the event that ends it behind it; `InTurns` that a turn answered in full has its reply drawn under its prompt, or that prompt is the last one and the reply is on its way. None of the three holds of the transcript alone |
| `PickerAlwaysFits` | `PickerFits` (a part of `InputKept`) | `LineInv`: the cursor is on a symbol's edge, and `PickerFor` says of *every* candidate what `PickerFits` says of the one highlighted, since the arrows may highlight any. A text cut at the offset where its first part ends gives back both parts (`CutAt`), and an offset on an edge always cuts (`CutIs`); `RefreshFits` is the one lemma about `refresh_picker` that every key needs: a command is a word, its blanks and a word, and the letters of a text in two parts are those of the parts |
| `InputIsKept` | `InputKept` | `RecallInv`: while a line is recalled its draft is what recalling began from, and the line is as it was unless it was mended. That Enter runs what was typed follows from `PickerFor` with the cursor at the end: the picker then replaces all of the text that has letters |

Induction over data is done with sets: the lengths at which a fact fails have a
least element (`LeastNat`), so that no induction theorem with an operator for a
parameter is needed. `SubsequencesProofs` has these lemmas. That `StripThinking` and
`Filtered`, which call themselves, are functions at all is `RecursionExists`: a
recursion along which a measure falls, here the length of the text, has a solution.

Model-checked only:
- liveness (`TurnsEnd`, `AsksEnd`, `Settles`, `NobodyWaitsForEver`, `CallsReturn`,
  `CallsEnd`), which with `ENABLED` is out of the prover's reach;
- the three runs expected to be violated.

## What is abstracted

- Contents, names, prices, token counts, times of day, wording.
- One look at a directory, and one replacement of a file, is one step;
  failing directory reads and index writes, an `atomic_write` interrupted
  between its two halves on Windows, and colliding names are left out.
- Two tools of one turn run one after the other, as in the code.
- The MCP health check at start-up uses clients of its own and is left out; so
  is the shutdown of servers at exit.
- Receipts: signatures, timestamps and the events' columns. A hash never
  collides. The window in which `recover_tail` looks is the whole file, so that a
  window that begins inside a character (`receipts.rs:441`) is the one hazard no
  property covers.
- Sessions a conversation leaves behind are not followed in `AgentTurn`; project
  memory and memdir are one message there, a plan's message and a summary one
  kind.
- One REPL session and one mailbox: others share nothing with them. Output that
  bash's background jobs write into a later eval is left out.
- Terminal: scrolling, drawing, `@file` completion, which reads the directory;
  letters have one case. On Windows capture is a suspension, which the model has.
- Streams: the wire format, statistics, lines that do not parse, which both clients
  skip.
- Benchmarks: the clock, percentiles, `--keep-workdir`; the text of what verify.sh,
  git and pytest print.
- Programs: what is asked and answered; a server that closes one pipe only.
- Stores: the save of the first run's onboarding, and git commands that fail.
- Worktrees: an empty parent directory that could not be removed.

## Not modelled

The tool gate is a choice in `AgentTurn`: its checks stand one behind the other
and keep no state between two calls, except the store of permissions, which
`Stores` has. The other built-in tools are one request to the outside each.
Rendering, the command line, traces, telemetry and the session diff
compute output from input and keep nothing. They are about a third of the code,
and tests a quarter more; the definitions of this project stand for 20 % of all
lines, 27 % of those that are not tests.

## Plan

What is left: the tool gate, composed with the loop in place of the choice of a
refusal.
