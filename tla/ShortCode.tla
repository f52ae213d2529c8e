------------------------------- MODULE ShortCode -------------------------------
(***************************************************************************)
(* Short codes: Generate draws a number and Encode writes it in base62, in *)
(* exactly shortCodeLength characters; Decode reads it back.  A character  *)
(* is its place in the alphabet, and NoPlace one that is not there.        *)
(***************************************************************************)
EXTENDS Integers, Sequences, SequencesExt

CONSTANTS
    Base,         \* length of base62Alphabet
    CodeLength,   \* shortCodeLength
    Draws         \* how many numbers Generate draws from: 2^64

ASSUME CodeParametersOK == Base \in Nat \ {0, 1} /\ CodeLength \in Nat \ {0} /\ Draws \in Nat

Digits == 0 .. Base - 1
NoPlace == -1
Invalid == -1

CodeStrings == [1 .. CodeLength -> Digits]

\* The number of codes, by big.Int's Exp.
Power[k \in Nat] == IF k = 0 THEN 1 ELSE Base * Power[k - 1]
Limit == Power[CodeLength]

\* What is left to write of n after each of the divisions.
Rest(n) ==
    LET rest[k \in 0 .. CodeLength] ==
            IF k = 0 THEN n % Limit ELSE rest[k - 1] \div Base
    IN  rest

\* Divides once for each character, writing from the right and padding with 0.
EncodeFromTheLeft(n) == [i \in 1 .. CodeLength |-> Rest(n)[i - 1] % Base]
Encode(n) == [i \in 1 .. CodeLength |-> Rest(n)[CodeLength - i] % Base]

\* The result after each of the characters.
Value(s) ==
    LET value[k \in 0 .. CodeLength] ==
            IF k = 0 THEN 0 ELSE value[k - 1] * Base + s[k]
    IN  value

Decode(s) ==
    IF Len(s) # CodeLength \/ NoPlace \in Range(s)
    THEN Invalid
    ELSE Value(s)[CodeLength]

Generated == [draw \in 0 .. Draws - 1 |-> Encode(draw)]

\* How many draws make a code.
Times(code) == Cardinality({draw \in 0 .. Draws - 1 : Generated[draw] = code})

\* Codes are read back as they were written: a number by its remainder, every string
\* of the right length by itself, and no other string at all; and Generate draws all
\* codes evenly, but for one draw more of those below the remainder of 2^64.
CodesRoundTrip ==
    /\ \A n \in 0 .. Draws - 1 : Decode(Encode(n)) = n % Limit
    /\ \A s \in CodeStrings : Encode(Decode(s)) = s
    /\ \A s \in SeqOf(Digits \cup {NoPlace}, CodeLength + 1) :
        s \notin CodeStrings <=> Decode(s) = Invalid
    /\ \A s, t \in CodeStrings : Times(s) - Times(t) \in -1 .. 1

=============================================================================
