------------------------------ MODULE MCGlfwShim ------------------------------
(***************************************************************************)
(* Instances of GlfwShim for TLC: Series and Xbox One consoles whose       *)
(* driver has the first config asked for, only a later one, or none; one   *)
(* whose package lacks the Xbox One runtime, one whose libEGL lacks an     *)
(* export, one without a display, two with an override; each in a room     *)
(* with a keyboard, with a screen of two sizes, or with a controller,      *)
(* which have nothing to do with each other.                               *)
(***************************************************************************)
EXTENDS GlfwShim
LOCAL INSTANCE SequencesExt

CONSTANTS main, worker

Console(name, packaged, configs) ==
    [requested |-> name, packaged |-> packaged, exported |-> TRUE, display |-> TRUE,
     configs |-> configs]

MCThreads == {main, worker}
MCIncomplete == {Console("xboxone", {"mesa"}, {"es3", "gl"})}
MCUnexported == {[Console("mesa", {"mesa"}, {"gl"}) EXCEPT !.exported = FALSE]}
\* An override that is a word for Mesa, and one that is none.
MCOverridden == {Console("series", {"mesa"}, {"gl"}), Console("other", {"mesa"}, {"gl"})}
MCBoxes ==
    {Console("mesa", {"mesa"}, c) : c \in {{"gl"}, {"gl-ns"}, {}}} \cup
    {Console("xboxone", Runtimes, c) : c \in {{"es3"}, {"es2-ns", "es3-ns"}, {"es2-ns"}}} \cup
    MCIncomplete \cup MCUnexported \cup MCOverridden \cup
    {[Console("mesa", {"mesa"}, {}) EXCEPT !.display = FALSE]}

MCKeys == {"w"}
MCSizes == {"720p", "1080p"}
MCRooms ==
    {[keys |-> MCKeys, sizes |-> {"1080p"}, pad |-> FALSE],
     [keys |-> {}, sizes |-> MCSizes, pad |-> FALSE],
     [keys |-> {}, sizes |-> {"1080p"}, pad |-> TRUE]}

\* Dispatch is what DispatchKeyEvent makes of one event after the other.
SomeEvents == [key : {"w", "s"}, up : BOOLEAN, was : BOOLEAN]
ASSUME DispatchesInTurn ==
    \A ks \in SUBSET {"w", "s"} : \A events \in BoundedSeq(SomeEvents, 3) :
        Dispatch(ks, events) = FoldLeft(DispatchKeyEvent, ks, events)
=============================================================================
