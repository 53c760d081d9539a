---------------------------- MODULE MCKalshiSync ----------------------------
(* One series with two events, and a market in the first of them. *)
EXTENDS KalshiSync

CONSTANTS s, e1, e2, m, p, q

OneSeries   == {s}
TwoEvents   == {e1, e2}
OneMarket   == {m}
Tree        == [x \in {s, e1, e2, m} |->
                CASE x = s -> Root [] x \in {e1, e2} -> s [] x = m -> e1]
TwoPayloads == {p, q}

=============================================================================
