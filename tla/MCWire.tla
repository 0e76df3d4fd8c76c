------------------------------- MODULE MCWire -------------------------------
\* Lengths on both sides of each boundary of the code.
EXTENDS Wire

MCLogins == {
    [seq |-> 1, database |-> TRUE, charset |-> TRUE, native |-> TRUE, compress |-> c] :
        c \in BOOLEAN} \cup {
    [seq |-> 1, database |-> TRUE, charset |-> FALSE, native |-> FALSE, compress |-> FALSE]}

\* The last one is a byte more than what is allowed.
MCPayloads == {1, Big - 1, Big, Big + 1, Big + 2}

MCBundles == {
    [deflated |-> TRUE, packets |-> <<1000, 900>>],
    [deflated |-> TRUE, packets |-> <<5, BigInner - 9>>],
    [deflated |-> TRUE, packets |-> <<BigInner>>],
    [deflated |-> FALSE, packets |-> <<20>>],
    [deflated |-> FALSE, packets |-> <<20, 30>>]}

\* Rests of a byte, of two pieces of which the last is cut, and of one that
\* reads as a full packet.
MCStraddlers == {
    [len |-> BigInner + 1, frames |-> <<
        [deflated |-> TRUE, pieces |-> <<[len |-> BigInner + 1, size |-> Big]>>],
        [deflated |-> TRUE, pieces |-> <<[len |-> 7, size |-> 1]>>]>>],
    [len |-> Allowed, frames |-> <<
        [deflated |-> TRUE, pieces |-> <<[len |-> Big, size |-> Big]>>],
        [deflated |-> TRUE, pieces |-> <<Whole(2), [len |-> 200, size |-> 3]>>]>>],
    [len |-> BigInner + 3, frames |-> <<
        [deflated |-> FALSE, pieces |-> <<[len |-> BigInner + 3, size |-> Big]>>],
        [deflated |-> FALSE, pieces |-> <<[len |-> BigInner, size |-> 3]>>]>>]}

MCMessages == {[chars |-> 15, bytes |-> 15], [chars |-> 20, bytes |-> 24],
               [chars |-> 513, bytes |-> 513]}

\* The buffer is filled to its last byte and grows for the last packet; it
\* grows field by field, but not for the row that follows; or until the pool
\* refuses. Lengths are at the boundaries of each form.
MCResults == {
    [names |-> <<3, 8>>, rows |-> <<<<0, 6>>, <<251, 250>>>>],
    [names |-> <<251>>, rows |-> <<<<5>>>>],
    [names |-> <<1>>, rows |-> [i \in 1..8 |-> <<1>>]],
    [names |-> <<4>>, rows |-> <<>>],
    [names |-> <<9>>, rows |-> <<<<65535, 65536, 2^24 - 1, 2^24>>>>],
    [names |-> <<1>>, rows |-> <<[i \in 1..7 |-> 250], <<241>>>>],
    [names |-> [i \in 1..40 |-> 30], rows |-> <<<<2>>>>],
    [names |-> [i \in 1..40 |-> 100], rows |-> <<<<2>>>>]}
=============================================================================
