------------------------------ MODULE Composer ------------------------------
(***************************************************************************)
(* The line the user edits in the terminal UI (src/src/cli/tui/app.rs,     *)
(* AppState): a text with a cursor, the lines submitted before, which the  *)
(* arrow keys recall, and the picker of slash commands, which follows the  *)
(* text.  Each key is one action (src/src/cli/tui/mod.rs, render_task).    *)
(*                                                                         *)
(* A text is a sequence of symbols; the cursor and what the picker replaces*)
(* are offsets in bytes, as in the code.  Letters have one case.           *)
(***************************************************************************)
EXTENDS Naturals, Sequences, FiniteSets, SequencesExt, Subsequences

CONSTANTS Symbols,    \* the symbols typed
          Wide,       \* those of two bytes
          Blanks,     \* the white space among them, NewLine included
          NewLine, Slash,
          Catalog,    \* the commands the picker knows, in order
          Builtins,   \* those that are not agents
          Subs,       \* command -> its subcommands, the default one first
          Seeds,      \* the histories a session may start with
          MaxKeys     \* bound: keys pressed

ASSUME ComposerAssumption ==
    /\ {Wide, Blanks} \subseteq SUBSET Symbols
    /\ NewLine \in Blanks /\ {NewLine, Slash} \subseteq Symbols
    /\ Blanks # {NewLine}
    /\ Catalog \in Seq(Seq(Symbols \ Blanks))
    /\ Builtins \subseteq {Catalog[i] : i \in 1..Len(Catalog)}
    /\ Subs \in [{Catalog[i] : i \in 1..Len(Catalog)} -> Seq(Seq(Symbols \ Blanks))]
    /\ Seeds \subseteq Seq(Seq(Symbols))
    /\ MaxKeys \in Nat

VARIABLES composer, cursor,
          inputHistory, historyIndex, historyDraft,   \* historyIndex 0: none
          picker,       \* open, candidates, selected, replaceEnd
          dismissed,    \* picker_dismissed_until_edit
          submitted,    \* what Enter last sent, <<>> for nothing
          pressed,      \* keys pressed
          draftWas,     \* ghost: the text that recalling began from
          mended     \* ghost: a recalled line has been mended since

text == <<composer, cursor>>
recall == <<inputHistory, historyIndex, historyDraft, draftWas, mended>>
cvars == <<text, recall, picker, dismissed, submitted, pressed>>

-----------------------------------------------------------------------------
\* Offsets

Bytes(s) == Len(s) + Cardinality({i \in 1..Len(s) : s[i] \in Wide})

\* is_char_boundary.
Boundary(s, off) == \E k \in 0..Len(s) : Bytes(SubSeq(s, 1, k)) = off

\* Slicing off a boundary panics: there is no such k.
Upto(s, off) == SubSeq(s, 1, CHOOSE k \in 0..Len(s) : Bytes(SubSeq(s, 1, k)) = off)
From(s, off) == SubSeq(s, Len(Upto(s, off)) + 1, Len(s))

PrevBoundary(s, off) ==
    CHOOSE b \in 0..(off - 1) :
        Boundary(s, b) /\ \A c \in (b + 1)..(off - 1) : ~Boundary(s, c)
NextBoundary(s, off) ==
    CHOOSE b \in (off + 1)..Bytes(s) :
        Boundary(s, b) /\ \A c \in (off + 1)..(b - 1) : ~Boundary(s, c)

\* The first word of s, and the blanks before its first letter.
Word(s) ==
    LET n == CHOOSE n \in 0..Len(s) :
                 /\ \A i \in 1..n : s[i] \notin Blanks
                 /\ n = Len(s) \/ s[n + 1] \in Blanks
    IN  SubSeq(s, 1, n)
Gap(s) ==
    LET n == CHOOSE n \in 0..Len(s) :
                 /\ \A i \in 1..n : s[i] \in Blanks
                 /\ n = Len(s) \/ s[n + 1] \notin Blanks
    IN  SubSeq(s, 1, n)

IsCommand(s) == s # <<>> /\ s[1] = Slash
Blank(s) == Gap(s) = s
Space == CHOOSE b \in Blanks : b # NewLine

\* The entries of list that begin with s, s itself first if it is one.
Matching(list, s) ==
    LET found == {i \in 1..Len(list) : IsPrefix(s, list[i])}
        exact == {i \in found : list[i] = s}
    IN  Kept(list, exact) \o Kept(list, found \ exact)

-----------------------------------------------------------------------------
\* The picker

ClosePicker(p) == [p EXCEPT !.open = FALSE, !.candidates = <<>>, !.selected = 0]
OpenPicker(list, end) ==
    [open |-> TRUE, candidates |-> list, selected |-> 0, replaceEnd |-> end]

\* refresh_picker(), subcommand mode: after a command that has subcommands.
PickSubcommand(s, off, p) ==
    LET head == Word(s)
        headEnd == Bytes(head)
        start == headEnd + Bytes(Gap(From(s, headEnd)))
        partial == Word(From(s, start))
        end == start + Bytes(partial)
        found == Matching(Subs[head], partial)
    IN  IF off > end \/ found = <<>> THEN ClosePicker(p)
        ELSE OpenPicker([i \in 1..Len(found) |-> head \o <<Space>> \o found[i]],
                        IF headEnd = Bytes(s) THEN headEnd ELSE end)

\* Command mode: while the cursor is in the first word.
PickCommand(s, off, p) ==
    LET head == Word(s)
        found == Matching(Catalog, head)
    IN  IF off > Bytes(head) \/ found = <<>> THEN ClosePicker(p)
        ELSE OpenPicker(found, Bytes(head))

Refresh(s, off, p, shut) ==
    IF shut \/ ~IsCommand(s) THEN ClosePicker(p)
    ELSE IF Word(s) \in DOMAIN Subs /\ Subs[Word(s)] # <<>> THEN PickSubcommand(s, off, p)
    ELSE PickCommand(s, off, p)

Highlighted == picker.candidates[picker.selected + 1]

-----------------------------------------------------------------------------

CInit ==
    /\ composer = <<>> /\ cursor = 0
    /\ inputHistory \in Seeds /\ historyIndex = 0 /\ historyDraft = <<>>
    /\ picker = [open |-> FALSE, candidates |-> <<>>, selected |-> 0, replaceEnd |-> 0]
    /\ dismissed = FALSE /\ submitted = <<>> /\ pressed = 0
    /\ draftWas = <<>> /\ mended = FALSE

Key == pressed < MaxKeys /\ pressed' = pressed + 1

\* set_composer(): a whole new text, the cursor at its end.
SetComposer(s) ==
    /\ composer' = s /\ cursor' = Bytes(s)
    /\ picker' = Refresh(s, Bytes(s), picker, dismissed)

ExitHistoryNav == historyIndex' = 0 /\ historyDraft' = <<>>

\* edit(): any edit ends recalling and lets the picker open again.
Edited(s, off) ==
    /\ Key
    /\ composer' = s /\ cursor' = off
    /\ picker' = Refresh(s, off, picker, FALSE)
    /\ dismissed' = FALSE
    /\ ExitHistoryNav
    /\ UNCHANGED <<inputHistory, draftWas, mended, submitted>>

InsertChar(c) ==
    Edited(Upto(composer, cursor) \o <<c>> \o From(composer, cursor),
           cursor + Bytes(<<c>>))

Backspace ==
    IF cursor = 0 THEN Edited(composer, 0)
    ELSE LET b == PrevBoundary(composer, cursor)
         IN  Edited(Upto(composer, b) \o From(composer, cursor), b)

MoveLeft == Edited(composer, IF cursor = 0 THEN 0 ELSE PrevBoundary(composer, cursor))

MoveRight ==
    Edited(composer, IF cursor = Bytes(composer) THEN cursor
                     ELSE NextBoundary(composer, cursor))

\* Enter: what the picker highlights is run, else the text is submitted.
Enter ==
    LET s == IF picker.open THEN Highlighted ELSE composer
        latest == IF inputHistory = <<>> THEN <<>> ELSE Last(inputHistory)
    IN
    /\ Key
    /\ composer' = <<>> /\ cursor' = 0
    /\ picker' = ClosePicker(picker) /\ dismissed' = FALSE
    /\ inputHistory' = IF Blank(s) \/ s = latest THEN inputHistory
                       ELSE Append(inputHistory, s)
    /\ ExitHistoryNav
    /\ submitted' = IF Blank(s) THEN submitted ELSE s
    /\ UNCHANGED <<draftWas, mended>>

Esc ==
    /\ Key /\ picker.open
    /\ picker' = ClosePicker(picker) /\ dismissed' = TRUE
    /\ UNCHANGED <<text, recall, submitted>>

-----------------------------------------------------------------------------
\* Tab

\* What comes of it is no edit() of the line: recalling goes on.
Completes ==
    /\ mended' = (historyIndex # 0)
    /\ UNCHANGED <<inputHistory, historyIndex, historyDraft, draftWas, dismissed, submitted>>

\* picker_accept(): the cursor goes behind the command.
Accept ==
    /\ Key /\ picker.open
    /\ LET s == Highlighted \o <<Space>>
       IN  composer' = s \o From(composer, picker.replaceEnd) /\ cursor' = Bytes(s)
    /\ picker' = ClosePicker(picker)
    /\ Completes

\* A word becomes the one word that it begins, with a blank behind it unless
\* there is one; or what all that it begins share.
Continuing(word, list) == Kept(list, {i \in 1..Len(list) : IsPrefix(word, list[i])})
Shared(found) == LongestCommonPrefix({found[i] : i \in 1..Len(found)})

Completion(word, list, rest) ==
    LET found == Continuing(word, list)
    IN  IF Len(found) # 1 THEN Shared(found)
        ELSE found[1] \o (IF rest # <<>> /\ rest[1] \in Blanks THEN <<>> ELSE <<Space>>)

Completable(word, list) ==
    LET found == Continuing(word, list)
    IN  Len(found) = 1 \/ (found # <<>> /\ Len(Shared(found)) > Len(word))

\* replace_range().
Replaced(before, word, rest) ==
    LET s == before \o word \o rest
    IN  /\ composer' = s /\ cursor' = Bytes(before \o word)
        /\ picker' = Refresh(s, cursor', picker, dismissed)
        /\ Completes

Builtin == Kept(Catalog, {i \in 1..Len(Catalog) : Catalog[i] \in Builtins})

\* complete_slash(): the command's name.  A bare slash has no completion.
CompleteSlash ==
    /\ Key /\ ~picker.open
    /\ IsCommand(composer) /\ cursor <= Bytes(Word(composer))
    /\ LET word == Word(composer)
           rest == From(composer, Bytes(word))
       IN  /\ Len(word) > 1 /\ Completable(word, Builtin)
           /\ Replaced(<<>>, Completion(word, Builtin, rest), rest)

\* complete_subcommand(): an empty word becomes the default one.
CompleteSubcommand ==
    /\ Key /\ ~picker.open
    /\ IsCommand(composer) /\ cursor > Bytes(Word(composer))
    /\ LET head == Word(composer)
           resolved == IF head \in Builtins THEN {head}
                       ELSE {c \in Builtins : Len(head) > 1 /\ IsPrefix(head, c)}
           before == head \o Gap(From(composer, Bytes(head)))
           word == Word(From(composer, Bytes(before)))
           rest == From(composer, Bytes(before) + Bytes(word))
       IN  /\ Cardinality(resolved) = 1
           /\ cursor \in Bytes(before)..Bytes(before \o word)
           /\ LET subs == Subs[CHOOSE c \in resolved : TRUE]
              IN  /\ subs # <<>> /\ (word = <<>> \/ Completable(word, subs))
                  /\ Replaced(before, IF word = <<>> THEN subs[1] \o <<Space>>
                                      ELSE Completion(word, subs, rest), rest)

-----------------------------------------------------------------------------
\* The arrows

\* A wrong recall: each step up takes the line for the draft.
HistoryPrevStashing ==
    /\ Key /\ ~picker.open /\ inputHistory # <<>> /\ historyIndex # 1
    /\ historyDraft' = composer
    /\ historyIndex' = IF historyIndex = 0 THEN Len(inputHistory) ELSE historyIndex - 1
    /\ draftWas' = IF historyIndex = 0 THEN composer ELSE draftWas
    /\ mended' = FALSE
    /\ SetComposer(inputHistory[historyIndex'])
    /\ UNCHANGED <<inputHistory, dismissed, submitted>>

\* Up: the line before, or the latest one with the text kept as the draft.  Not
\* from a draft of several lines, nor from the oldest line.
HistoryPrev ==
    /\ Key /\ ~picker.open /\ inputHistory # <<>> /\ historyIndex # 1
    /\ IF historyIndex = 0
         THEN /\ \A i \in 1..Len(composer) : composer[i] # NewLine
              /\ historyDraft' = composer /\ draftWas' = composer
              /\ historyIndex' = Len(inputHistory)
         ELSE historyIndex' = historyIndex - 1 /\ UNCHANGED <<historyDraft, draftWas>>
    /\ mended' = FALSE
    /\ SetComposer(inputHistory[historyIndex'])
    /\ UNCHANGED <<inputHistory, dismissed, submitted>>

\* Down: the line after, or the draft.
HistoryNext ==
    /\ Key /\ ~picker.open /\ historyIndex # 0
    /\ IF historyIndex < Len(inputHistory)
         THEN /\ historyIndex' = historyIndex + 1
              /\ SetComposer(inputHistory[historyIndex + 1])
              /\ UNCHANGED historyDraft
         ELSE ExitHistoryNav /\ SetComposer(historyDraft)
    /\ mended' = FALSE
    /\ UNCHANGED <<inputHistory, draftWas, dismissed, submitted>>

\* Up and Down in the picker.
PickerMoves(by) ==
    /\ Key /\ picker.open
    /\ picker' = [picker EXCEPT !.selected = (@ + by) % Len(picker.candidates)]
    /\ UNCHANGED <<text, recall, dismissed, submitted>>

PickerNext == PickerMoves(1)
PickerPrev == PickerMoves(Len(picker.candidates) - 1)

CNext ==
    \/ \E c \in Symbols : InsertChar(c)
    \/ Backspace \/ MoveLeft \/ MoveRight
    \/ Enter \/ Esc
    \/ Accept \/ CompleteSlash \/ CompleteSubcommand
    \/ HistoryPrev \/ HistoryNext \/ PickerNext \/ PickerPrev

CSpec == CInit /\ [][CNext]_cvars

-----------------------------------------------------------------------------
\* Properties

Letters(s) == Kept(s, {i \in 1..Len(s) : s[i] \notin Blanks})

\* The offsets the next key slices at are on a symbol's edge, or it panics; and
\* what the picker highlights completes what it would replace, so that neither
\* Tab nor Enter puts one command for another after a recall, a completion or a
\* step of the cursor.  (refresh_picker, called from every change.)
PickerFits ==
    /\ Boundary(composer, cursor)
    /\ picker.open =>
         /\ picker.selected < Len(picker.candidates)
         /\ Boundary(composer, picker.replaceEnd)
         /\ IsPrefix(Letters(Upto(composer, picker.replaceEnd)), Letters(Highlighted))
         /\ cursor <= picker.replaceEnd \/ Letters(From(composer, picker.replaceEnd)) = <<>>

\* What was typed comes back or is run: recalling starts from a draft that
\* stepping down restores, a recalled line gives way to another only as it was
\* recalled (a completion apart), and a line entered with the cursor at its end
\* is run as typed or mended.  (history_prev, history_next, render_task.)
TextKept ==
    /\ [][HistoryPrev \/ HistoryNext =>
            \/ historyIndex = 0 /\ historyDraft' = composer
            \/ historyIndex # 0 /\ (mended \/ composer = inputHistory[historyIndex])]_cvars
    /\ [][HistoryNext /\ historyIndex' = 0 => composer' = draftWas]_cvars
    /\ [][Enter /\ cursor = Bytes(composer) /\ ~Blank(composer) =>
            IsPrefix(Letters(composer), Letters(submitted'))]_cvars

\* What the user has typed and what the picker shows both hold good, whatever
\* the keys.
InputKept == []PickerFits /\ TextKept
=============================================================================
