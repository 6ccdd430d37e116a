------------------------------- MODULE MCServices -------------------------------
EXTENDS Services

None  == [foe |-> <<>>, soe |-> <<>>, eoe |-> <<>>]
TwoUnits == [read |-> 2, write |-> 2]

Short == <<"a">>
Even  == <<"a", "b">>
Odd   == <<"a", "b", "c">>

FoeOp(op, f)  == [op |-> op, file |-> f]
SoeRead(v, n) == [op |-> "read", value |-> v, len |-> n]
SoeWrite(v)   == [op |-> "write", value |-> v, len |-> 0]
EthFrame(f)   == [op |-> "frame", frame |-> f]
SetIp         == [op |-> "ip", frame |-> <<>>]

\* One or two calls.
UpToTwo(first, second) == {<<a>> : a \in first} \cup (first \X second)

\* One service at a time with up to two calls, ...
FilesOnly ==
    \/ \E c \in {<<FoeOp("read", 2)>>, <<FoeOp("write", 3)>>, <<FoeOp("read", 3), FoeOp("read", 2)>>,
                <<FoeOp("read", 2), FoeOp("write", 1)>>, <<FoeOp("write", 3), FoeOp("read", 2)>>,
                <<FoeOp("write", 3), FoeOp("write", 1)>>} :
          ServicesInit([None EXCEPT !.foe = c], TwoUnits, <<>>, FALSE, 0)
    \/ ServicesInit([None EXCEPT !.foe = <<FoeOp("write", 2)>>], [read |-> 1, write |-> 2], <<>>, FALSE, 0)
DriveOnly ==
    \E c \in {<<SoeRead(Odd, 0)>>, <<SoeRead(Odd, 2)>>, <<SoeWrite(Odd)>>,
             <<SoeRead(Odd, 3), SoeRead(Short, 2)>>, <<SoeWrite(Even), SoeRead(Short, 1)>>} :
       ServicesInit([None EXCEPT !.soe = c], TwoUnits, <<>>, FALSE, 0)
NetOnly ==
    \E c \in UpToTwo({EthFrame(Odd), EthFrame(Even)}, {EthFrame(Short), SetIp}),
      f \in {<<>>, <<Odd, Short>>}, device \in BOOLEAN :
       ServicesInit([None EXCEPT !.eoe = c], TwoUnits, f, device, 0)

\* ... and two of them at once, with one, where another slave holds a send buffer or not.
Together ==
    \/ \E c \in {[None EXCEPT !.foe = <<FoeOp("read", 1)>>, !.soe = <<SoeRead(Short, 1)>>],
                [None EXCEPT !.foe = <<FoeOp("write", 1)>>, !.eoe = <<EthFrame(Short)>>]} :
          ServicesInit(c, TwoUnits, <<>>, TRUE, 1)
    \/ \E held \in {0, 1} :
          ServicesInit([None EXCEPT !.soe = <<SoeWrite(Short)>>, !.eoe = <<SetIp>>], TwoUnits, <<>>, TRUE, held)

Init == FilesOnly \/ DriveOnly \/ NetOnly \/ Together
Spec == Init /\ [][Next]_vars /\ Fairness

MCFiles == <<Short, Even, Odd>>
=============================================================================
