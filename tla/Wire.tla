--------------------------------- MODULE Wire ---------------------------------
(***************************************************************************)
(* The Unix socket between a task and simview-core, and the framing both   *)
(* ends use on it: a header with the kind and the length, then the payload.*)
(*                                                                         *)
(* A frame is abstracted to two pieces, a head (the header with perhaps    *)
(* some payload) and the rest; this is as fine as the properties need,     *)
(* because what goes wrong with a byte stream is that a reader takes a     *)
(* piece for a head that is none.  Each direction is a sequence of pieces  *)
(* with the room of the kernel's buffer.                                   *)
(***************************************************************************)
EXTENDS Naturals, Sequences, FiniteSets

CONSTANTS
    Requests,           \* identifiers of the requests the client makes
    Hello,              \* the one connect() makes first
    Room,               \* pieces the kernel buffers in each direction
    None

ASSUME WireAssumption ==
    /\ Hello \in Requests /\ None \notin Requests
    /\ Room \in Nat \ {0}

VARIABLES
    up, down,           \* pieces on their way to the server, to the client
    clientEnd,          \* the client has ended its side
    serverEnd           \* the server has closed its descriptor

wire == <<up, down, clientEnd, serverEnd>>

Piece(frame, part) == [of |-> frame, part |-> part]

\* encodeFrame, then whatever of a queue of frames is not written yet when
\* "offset" pieces of the first one are.
Unwritten(queue, offset) ==
    [i \in 1..(2 * Len(queue) - offset) |->
        Piece(queue[(i + offset + 1) \div 2], IF (i + offset) % 2 = 1 THEN 1 ELSE 2)]

\* FrameDecoder: the piece completes the frame whose head is in the buffer.
Completes(buffer, piece) ==
    /\ buffer # <<>> /\ piece.part = 2
    /\ piece.of = buffer[1].of

\* FrameDecoder: the piece starts a frame.
Begins(buffer, piece) == buffer = <<>> /\ piece.part = 1

\* A stream a decoder that has read nothing can take apart: heads and rests
\* alternate and belong together.
Framed(stream) ==
    \A i \in 1..Len(stream) :
        /\ stream[i].part = IF i % 2 = 1 THEN 1 ELSE 2
        /\ i % 2 = 0 => stream[i].of = stream[i - 1].of

WireInit ==
    /\ up = <<>> /\ down = <<>>
    /\ clientEnd = FALSE /\ serverEnd = FALSE
=============================================================================
