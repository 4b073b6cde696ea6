----------------------------- MODULE MCClientMods -----------------------------
(* What a source may have to send, for messages of 1000 bytes: with 850    *)
(* bytes for data, an item fills a message exactly (850, 637 encoded),     *)
(* leaves nothing (700, 525 encoded) or little, or takes several messages. *)
EXTENDS ClientMods

Work(m, b, f, a, n, u, d) ==
    [mode |-> m, b64 |-> b, file |-> f, all |-> a, new |-> n, updated |-> u, deleted |-> d]
Slow(b, f, a) == Work("slow", b, f, a, <<>>, <<>>, <<>>)
TwoWay(b, f, n, u, d) == Work("twoWay", b, f, <<>>, n, u, d)

MCWorks ==
    {Slow(FALSE, FALSE, <<700, 30, 2000>>), Slow(TRUE, FALSE, <<525, 30, 637>>),
     Slow(FALSE, TRUE, <<1700, 0>>), Slow(TRUE, TRUE, <<700>>),
     TwoWay(FALSE, FALSE, <<400, 200>>, <<0, 850>>, <<0, 0>>),
     TwoWay(TRUE, FALSE, <<2000>>, <<>>, <<0>>),
     TwoWay(FALSE, TRUE, <<>>, <<690, 850>>, <<>>),
     TwoWay(FALSE, FALSE, <<400>>, <<>>, <<0, 0, 0>>),
     Work("fromServer", FALSE, FALSE, <<>>, <<>>, <<>>, <<>>)}
=============================================================================
