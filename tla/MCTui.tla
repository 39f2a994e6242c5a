------------------------------- MODULE MCTui -------------------------------
(***************************************************************************)
(* A session of a few lines, and apart from it the editing of one line: the*)
(* two share no state, so that a behaviour is of one part or the other.    *)
(***************************************************************************)
EXTENDS Tui, Composer, TLC

VARIABLE part
mcvars == <<vars, cvars, part>>

NewLineDef == "\n"
BlanksDef == {" ", "\n"}
SymbolsDef == {"/", "a", "e"} \cup BlanksDef
CatalogDef == <<<<"/","a","a">>, <<"/","a">>, <<"/","e","a">>, <<"/","e">>>>
BuiltinsDef == {<<"/","a">>, <<"/","a","a">>}
SubsDef == [c \in ToSet(CatalogDef) |->
               IF c = <<"/","a">> THEN <<<<"a","a">>, <<"a">>>> ELSE <<>>]
SeedsDef == {<<>>, <<<<"/","a">>, <<"e">>>>}

\* The part a behaviour is not of begins, and stays, in one state.
MCInit ==
    /\ Init /\ CInit /\ part \in {"session", "line"}
    /\ part = "session" => inputHistory = <<>>

MCNext ==
    \/ part = "session" /\ Next /\ UNCHANGED <<cvars, part>>
    \/ part = "line" /\ CNext /\ UNCHANGED <<vars, part>>
    \/ part = "line" /\ pressed = MaxKeys /\ UNCHANGED mcvars

MCSpec ==
    /\ MCInit /\ [][MCNext]_mcvars
    /\ part = "session" => WF_vars(RenderStep) /\ WF_vars(MainStep)
=============================================================================
