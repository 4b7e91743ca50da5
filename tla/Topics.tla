------------------------------- MODULE Topics -------------------------------
(***************************************************************************)
(* Topic names and filters: the checks and the matcher of libmosquitto     *)
(* (util_mosq.c), which the broker uses for access control and bridges and *)
(* mosquitto_sub for its filters, and the tokeniser of the subscription    *)
(* tree (subs.c).                                                          *)
(*                                                                         *)
(* A string is a sequence of characters; "/", "+", "#" and "$" have a      *)
(* meaning, any other value is a character like any other.                 *)
(***************************************************************************)
EXTENDS Integers, Sequences, SequencesExt, FiniteSets

CONSTANT NULL   \* no pointer, no name, no connection

\* The levels of a name: what stands between the slashes.
split(str) ==
    LET step(levels, c) ==
          IF c = "/" THEN Append(levels, <<>>)
          ELSE [levels EXCEPT ![Len(levels)] = Append(@, c)]
    IN FoldLeft(step, << <<>> >>, str)

\* A name that is published to has no wildcards.
_mosquitto_topic_wildcard_len_check(str) ==
    \A k \in DOMAIN str : str[k] \notin {"+", "#"}

\* A wildcard of a filter fills its level, and "#" ends the filter.
_mosquitto_topic_wildcard_pos_check(str) ==
    LET at(k) == IF k \in DOMAIN str THEN str[k] ELSE "end"
    IN \A k \in DOMAIN str :
         /\ str[k] = "+" => at(k - 1) \in {"end", "/"} /\ at(k + 1) \in {"end", "/"}
         /\ str[k] = "#" => at(k - 1) \in {"end", "/"} /\ at(k + 1) = "end"

\* The tokens begin with an empty one, unless the name begins with "$".  A
\* leading slash adds nothing to that.
_sub_topic_tokenise(str) ==
    CASE str # <<>> /\ Head(str) = "$" -> split(str)
      [] str # <<>> /\ Head(str) = "/" -> << <<>> >> \o split(Tail(str))
      [] OTHER -> << <<>> >> \o split(str)

\* The matcher walks over both strings.  When one character of the topic is
\* left and three of the filter, the last two being "/#", it does not compare
\* the characters it stands at; a topic of one character never gets there.
mosquitto_topic_matches_sub(sub, topic) ==
    LET slen == Len(sub)
        tlen == Len(topic)
        level_end(t) == CHOOSE n \in t..tlen :
                          /\ n = tlen \/ topic[n + 1] = "/"
                          /\ \A k \in t..(n - 1) : topic[k + 1] # "/"
        walk[s \in 0..slen, t \in 0..tlen] ==
          LET go_on(s1, t1) ==
                \/ t1 = tlen - 1 /\ s1 = slen - 3 /\ sub[s1 + 2] = "/" /\ sub[s1 + 3] = "#"
                \/ walk[s1, t1]
          IN IF s = slen \/ t = tlen THEN FALSE
             ELSE IF sub[s + 1] = topic[t + 1]
             THEN \/ t + 1 = tlen /\ (s + 1 = slen \/ (s + 2 = slen /\ sub[slen] = "+"))
                  \/ go_on(s + 1, t + 1)
             ELSE IF sub[s + 1] = "+"
             THEN (level_end(t) = tlen /\ s + 1 = slen) \/ go_on(s + 1, level_end(t))
             ELSE sub[s + 1] = "#" /\ s + 1 = slen
    IN /\ sub[1] = "$" <=> topic[1] = "$"
       /\ walk[0, 0]

-----------------------------------------------------------------------------
(* What the man page promises (man/mqtt.7.xml): "+" stands for one level,  *)
(* "#" for all that remain, none included, and topics beginning with "$"   *)
(* are apart.                                                              *)

Matches(sub, topic) ==
    LET f == split(sub)
        t == split(topic)
        open == Last(f) = <<"#">>
        n == IF open THEN Len(f) - 1 ELSE Len(f)
    IN /\ sub[1] = "$" <=> topic[1] = "$"
       /\ IF open THEN Len(t) >= n ELSE Len(t) = n
       /\ \A k \in 1..n : f[k] \in {<<"+">>, t[k]}
=============================================================================
