--------------------------- MODULE MCMicroServer ---------------------------
(***************************************************************************)
(* Instances of MicroServer for TLC: requests with and without a body, a   *)
(* body that never comes, a range, a request that is refused; answers of   *)
(* one temporary file, of several files, and one that counts its length.   *)
(***************************************************************************)
EXTENDS MicroServer

Request(len, body, range, answers) ==
    [head |-> 1, blank |-> TRUE, len |-> len, body |-> body, range |-> range,
     answers |-> answers]

Part(t, n) == [temp |-> t, size |-> n]

Answer(uselen, parts) ==
    [uselen |-> uselen, stop |-> FALSE, header |-> 1, parts |-> parts]

OneFile == Answer(FALSE, <<Part(TRUE, 1)>>)
TwoFiles == Answer(FALSE, <<Part(TRUE, 1), Part(FALSE, 2)>>)
Counted == Answer(TRUE, <<Part(TRUE, 4)>>)
Stop == [OneFile EXCEPT !.stop = TRUE]

Rich == {Request(1, 1, 2, {TwoFiles, Counted}),
         [Request(0, 0, 0, {}) EXCEPT !.blank = FALSE]}
Plain == {Request(0, 0, 0, {OneFile, Stop})}

First == CHOOSE c \in Clients : TRUE
MCAsks == [c \in Clients |-> IF c = First THEN Rich ELSE Plain]
=============================================================================
