-------------------------------- MODULE MCPages --------------------------------
(***************************************************************************)
(* Finite instances of how a page comes, goes and writes itself: the       *)
(* pipeline that fetches it and its resources, where it navigates, and     *)
(* what it writes into its document.  They share no state; a behaviour is  *)
(* one of one of them, the others stay as they are.  Two rules are enough  *)
(* for rules that disagree and for a rule that comes or goes while another *)
(* one runs.                                                               *)
(***************************************************************************)
EXTENDS RequestPipeline, SequencesExt, TLC

VARIABLES part,
    steps, frame, multiple, at, pageType, base, baseElement, last, loading, left, pushed, wrong,  \* Navigation
    page, pos, document, writer, confused                                                \* DocumentWrites

(* Tags, texts and limits of comments, in any order behind one that opens something. *)
Openings == {<<"<", "d", ">">>, <<"<", "s", ">">>, <<"<!--">>}
Pieces   == Openings \cup {<<"</", "d", ">">>, <<"</", "s", ">">>, <<"-->">>, <<"x">>, <<"<">>}
Rests    == UNION {[1..n -> Pieces] : n \in 0..3}
Written  == {opening \o FlattenSeq(rest) : opening \in Openings, rest \in Rests}

N == INSTANCE Navigation WITH MaxSteps <- 3
D == INSTANCE DocumentWrites WITH Pages <- Written

navigation == <<steps, frame, multiple, at, pageType, base, baseElement, last, loading, left, pushed, wrong>>
writing    == <<page, pos, document, writer, confused>>
all        == <<part, vars, navigation, writing>>

PagesInit ==
    /\ part \in {"pipeline", "navigation", "writing"}
    /\ IF part = "pipeline" THEN Init
       ELSE Init /\ nature = (CHOOSE n \in Natures : TRUE) /\ listeners = {}
    /\ N!Init /\ (part # "navigation" => at = N!Parent /\ ~multiple /\ ~frame)
    /\ D!Init /\ (part # "writing" => page = <<"<!--">>)

PagesNext ==
    /\ UNCHANGED part
    /\ \/ part = "pipeline" /\ Next /\ UNCHANGED <<navigation, writing>>
       \/ part = "navigation" /\ N!Next /\ UNCHANGED <<vars, writing>>
       \/ part = "writing" /\ D!Next /\ UNCHANGED <<vars, navigation>>

PagesSpec == PagesInit /\ [][PagesNext]_all

Symmetry == Permutations(Rules)

(* Where a page goes, what is announced of it, and what it writes: see there. *)
NavigationsAreAsAsked   == N!NavigationsAreAsAsked
NavigationsAreAnnounced == N!NavigationsAreAnnounced
DocumentIsAsWritten     == D!DocumentIsAsWritten
================================================================================
