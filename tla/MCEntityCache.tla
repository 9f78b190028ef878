--------------------------- MODULE MCEntityCache ---------------------------
EXTENDS EntityCache
\* Two servers: the first has two threads and listens, the second has one and
\* does not.
CONSTANTS writer, reader, other, listener, first, second
MC_Instances == {first, second}
MC_Listeners == {listener}
MC_Threads == {writer, reader, other} \cup MC_Listeners
MC_InstanceOf == [t \in MC_Threads |-> IF t = other THEN second ELSE first]
=============================================================================
