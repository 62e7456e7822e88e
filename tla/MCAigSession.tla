----------------------------- MODULE MCAigSession -----------------------------
(* Small networks and a small database for the passes.                     *)
EXTENDS AigSession

P(n) == Signal(n, FALSE)
N(n) == Signal(n, TRUE)
Net(pis, gates, pos) == [pis |-> pis, gates |-> gates, pos |-> pos]

And(f, g) == <<f, g>>

MCNetworks == {
    \* a chain, with its inner gate as an output too or not
    Net(3, <<And(P(1), P(2)), And(P(3), P(4))>>, <<P(5)>>),
    Net(3, <<And(P(1), P(2)), And(P(3), N(4))>>, <<N(5), P(4)>>),
    \* (1 and 2) or (1 and 3), with a gate that nothing needs
    Net(3, <<And(P(1), P(2)), And(P(1), P(3)), And(N(4), N(5)), And(P(2), P(3))>>, <<N(6)>>),
    \* two roots over one gate; 3 is not needed for the output
    Net(3, <<And(P(1), P(2)), And(P(3), P(4)), And(N(3), P(4)), And(N(5), N(6))>>, <<P(7)>>),
    \* the multiplexer
    Net(3, <<And(P(1), P(2)), And(N(1), P(3)), And(N(4), N(5))>>, <<N(6)>>),
    \* a chain of three with a reader beside it
    Net(4, <<And(P(1), P(2)), And(P(3), P(5)), And(P(4), P(6)), And(P(1), P(4))>>, <<P(7), N(8)>>),
    \* a gate that is false, and one over it
    Net(3, <<And(P(1), P(2)), And(N(1), P(3)), And(P(4), P(5)), And(P(3), N(6))>>, <<P(7), P(6)>>),
    \* (1 or 2) and (3 or 4)
    Net(4, <<And(N(1), N(2)), And(N(3), N(4)), And(N(5), N(6))>>, <<P(7)>>)}

MCStructures == {
    \* 1 and 2 and 3, without and with redundancy
    Net(3, <<And(P(1), P(2)), And(P(3), P(4))>>, <<P(5)>>),
    Net(3, <<And(P(1), P(2)), And(P(1), P(3)), And(P(4), P(5))>>, <<P(6)>>),
    \* 1 and (2 or 3), 1 and 2 or 1 and 3
    Net(3, <<And(N(2), N(3)), And(P(1), N(4))>>, <<P(5)>>),
    Net(3, <<And(P(1), P(2)), And(P(1), P(3)), And(N(4), N(5))>>, <<N(6)>>),
    \* the multiplexer
    Net(3, <<And(P(1), P(2)), And(N(1), P(3)), And(N(4), N(5))>>, <<N(6)>>),
    \* four inputs
    Net(4, <<And(P(1), P(2)), And(P(3), P(4)), And(P(5), P(6))>>, <<P(7)>>)}
=============================================================================
