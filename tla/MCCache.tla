------------------------------ MODULE MCCache -------------------------------
EXTENDS Cache, TLC

CONSTANTS c1, c2

MCClients == {c1, c2}
MCRelease == c1 :> "old" @@ c2 :> "new"

\* Ids of which one is the beginning of the other.
Tour1  == [service |-> <<"t">>, entity |-> <<"e">>, id |-> <<"1">>]
Tour12 == [service |-> <<"t">>, entity |-> <<"e">>, id |-> <<"1", "2">>]

MCItems      == {Tour1, Tour12}
MCVersioning == {Tour1}
MCItoa       == [v \in 1..MaxVersion |-> <<ToString(v)>>]
=============================================================================
