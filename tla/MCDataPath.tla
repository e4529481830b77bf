----------------------------- MODULE MCDataPath -----------------------------
(* Small instances of DataPath, and the pure parts it uses over bounded     *)
(* inputs: the file names of topics, the bytes of headers.                  *)
EXTENDS DataPath, StreamConfig, SequencesExt, TLC

CONSTANTS s1, s2, short, long, oversize

Letters == {"C", "c", "1"}
LowerCase == "C" :> "c" @@ "c" :> "c" @@ "1" :> "1"

\* Two topics whose streams are recorded in one file.
TopicOf == s1 :> <<"C", " ", "1">> @@ s2 :> <<"-", "c", "-", "-", "1", "!">>
OneFile == {<<"c", "_", "1">>}
OnePath == [s \in Streams |-> <<"c", "_", "1">>]

ASSUME TopicsShareFile ==
    \A s \in {s1, s2} : SanitizedName(TopicOf[s]) \in OneFile

\* Every file name is normal and is the name of itself.
ASSUME NamesAreNormal ==
    \A topic \in BoundedSeq({"C", "c", "-"}, 5) :
        LET name == SanitizedName(topic) IN
        NormalName(name) /\ SanitizedName(name) = name

\* Payloads whose lengths differ in both bytes of their length field.
Lengths == [p \in Payloads |-> IF p = short THEN 5 ELSE 259]

\* Bounds of the write_frame calls of s1 and s2.
OneTwo == [s \in Streams |-> IF s = s1 THEN 1 ELSE 2]
One == [s \in Streams |-> 1]

=============================================================================
