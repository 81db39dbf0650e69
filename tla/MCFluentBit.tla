---------------------------- MODULE MCFluentBit ----------------------------
EXTENDS FluentBitProperties

OneFluentBit == {"fluent-bit"}
TwoFluentBits == {"fluent-bit", "edge"}
OneNamespace == [n \in FluentBits |-> "logging"]

Spec1(l, b) == [labels |-> l, body |-> b]

\* A spec that changes, changes back and is then relabelled.
Edited == [n \in FluentBits |->
    <<Spec1("x", "a"), Spec1("x", "b"), Spec1("x", "a"), Spec1("y", "a")>>]
Unedited == [n \in FluentBits |-> <<Spec1("x", "a")>>]
============================================================================
