---------------------------- MODULE StationTaps ----------------------------
(***************************************************************************)
(* What the distributor promises its users, the programs that read the     *)
(* taps: while it runs, every station it has seen on the watched bridge    *)
(* port has a tap of its own for good, and a tap gets copies of the frames *)
(* of its station and of frames for everybody, and of no others.           *)
(***************************************************************************)
EXTENDS Integers, Sequences

CONSTANTS
    Station,     \* addresses
    Tap,         \* taps there may be
    FrameSet,    \* frames
    Parties,     \* Parties[f]: the stations f makes known and belongs to
    ForAll,      \* the frames that may be copied to every tap
    Nothing      \* the frame before the first one

VARIABLES
    running,     \* whether the distributor runs
    tapOf,       \* the stations' taps: a set of pairs <<station, tap>>
    frame,       \* the frame last taken
    copies       \* the taps it has been copied to, in order

stVars == <<running, tapOf, frame, copies>>

StInit ==
    /\ running = FALSE
    /\ tapOf = {}
    /\ frame = Nothing
    /\ copies = <<>>

Begin ==
    /\ ~running
    /\ running' = TRUE
    /\ UNCHANGED <<tapOf, frame, copies>>

Take(f) ==
    /\ running
    /\ frame' = f
    /\ copies' = <<>>
    /\ UNCHANGED <<running, tapOf>>

\* A new station of the current frame gets a tap no other station has.
Learn(m, t) ==
    /\ running
    /\ frame \in FrameSet
    /\ m \in Parties[frame]
    /\ \A x \in tapOf : x[1] # m /\ x[2] # t
    /\ tapOf' = tapOf \cup {<<m, t>>}
    /\ UNCHANGED <<running, frame, copies>>

\* A station's tap gets a copy of the current frame.
Deliver(m, t) ==
    /\ running
    /\ frame \in FrameSet
    /\ <<m, t>> \in tapOf
    /\ m \in Parties[frame] \/ frame \in ForAll
    /\ copies' = Append(copies, t)
    /\ UNCHANGED <<running, tapOf, frame>>

\* The distributor ends, and nothing it knew survives.
End ==
    /\ running
    /\ running' = FALSE
    /\ tapOf' = {}
    /\ frame' = Nothing
    /\ copies' = <<>>

StNext ==
    \/ Begin
    \/ \E f \in FrameSet : Take(f)
    \/ \E m \in Station, t \in Tap : Learn(m, t)
    \/ \E m \in Station, t \in Tap : Deliver(m, t)
    \/ End

StSpec == StInit /\ [][StNext]_stVars
=============================================================================
