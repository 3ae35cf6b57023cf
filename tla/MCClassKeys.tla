---------------------------- MODULE MCClassKeys -----------------------------
(* ClassKeys over many small keychains, for TLC. *)
EXTENDS ClassKeys

CONSTANTS me, sponsor, stranger, \* peers
          s, t,                  \* private keys
          top, mid, low,         \* key names
          x, y,                  \* PCS identities
          Count                  \* bound: class key records

Mine1 == [peer |-> me, secret |-> s]
Their(secret) == [peer |-> sponsor, secret |-> secret]
Saved == {<<Mine1>>, <<Mine1, Their(t)>>, <<Mine1, Their(t), Their(t)>>, <<Mine1, Their(t), Their(s)>>}

Shares == {[receiver |-> p, tlk |-> top, sound |-> b] : p \in {sponsor, stranger}, b \in BOOLEAN}
KeyRecords ==
  {[name |-> n, parent |-> p, sound |-> TRUE] : n \in {mid, low}, p \in {top, mid, low}}
    \cup {[name |-> low, parent |-> mid, sound |-> FALSE]}
Sealed == [parent : {mid, low}, identity : {x}, sound : {TRUE}]
            \cup [parent : {low}, identity : {None}, sound : {TRUE}]
            \cup [parent : {low}, identity : {y}, sound : BOOLEAN]

AllHoldings ==
  [candidates : Saved, shares : {{sh} : sh \in Shares},
   records : {<<[name |-> mid, parent |-> top, sound |-> TRUE]>>}, items : {<<i>> : i \in Sealed}]
  \cup
  [candidates : {<<Mine1, Their(t)>>},
   shares : {{[receiver |-> sponsor, tlk |-> top, sound |-> TRUE]}},
   records : [1..Count -> KeyRecords], items : [1..2 -> Sealed]]

\* By the time of another run a key has been added, or an item has gone.
LaterHoldings ==
  [candidates : {<<Mine1, Their(t)>>},
   shares : {{[receiver |-> sponsor, tlk |-> top, sound |-> TRUE]}},
   records : {<<[name |-> low, parent |-> mid, sound |-> TRUE],
                [name |-> mid, parent |-> top, sound |-> TRUE]>>},
   items : {<<i>> : i \in Sealed}]
=============================================================================
