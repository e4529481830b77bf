---------------------------- MODULE StreamConfig ----------------------------
(***************************************************************************)
(* StreamConfig::sanitized_name (src/stream.rs): the file name that        *)
(* handle_stream records a topic under.  Topics and names are sequences.   *)
(***************************************************************************)
EXTENDS Integers, Sequences, FiniteSetsExt

CONSTANTS
    Alphanumeric, \* characters for which is_alphanumeric holds
    Lower         \* to_ascii_lowercase on them

Underscore == "_"

\* Of the characters only their class and their lower case matter.
ASSUME StreamConfigAssumption ==
    /\ Underscore \notin Alphanumeric
    /\ Lower \in [Alphanumeric -> Alphanumeric]
    /\ \A c \in Alphanumeric : Lower[Lower[c]] = Lower[c]

\* Every other character becomes an underscore.
Mapped(topic) ==
    [i \in DOMAIN topic |->
        IF topic[i] \in Alphanumeric THEN Lower[topic[i]] ELSE Underscore]

\* The while loop leaves one underscore of each run; of each prefix of a name,
\* what it leaves.
CollapsedPrefixes(name) ==
    LET upto[n \in 0..Len(name)] ==
            IF n = 0 THEN <<>>
            ELSE IF n > 1 /\ name[n] = Underscore /\ name[n - 1] = Underscore
                 THEN upto[n - 1]
                 ELSE Append(upto[n - 1], name[n])
    IN  upto

Collapsed(name) == CollapsedPrefixes(name)[Len(name)]

Trimmed(name) ==
    LET kept == {i \in DOMAIN name : name[i] # Underscore} IN
    IF kept = {} THEN <<>> ELSE SubSeq(name, Min(kept), Max(kept))

SanitizedName(topic) == Trimmed(Collapsed(Mapped(topic)))

\* What a file name looks like: a name of lower-case alphanumerics and single underscores between them.
NormalName(name) ==
    /\ \A i \in DOMAIN name :
           name[i] \in {Lower[c] : c \in Alphanumeric} \cup {Underscore}
    /\ \A i \in DOMAIN name : name[i] = Underscore =>
           i > 1 /\ i < Len(name) /\ name[i - 1] # Underscore

=============================================================================
