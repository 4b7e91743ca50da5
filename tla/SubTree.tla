------------------------------ MODULE SubTree -------------------------------
(***************************************************************************)
(* The subscription tree of the broker (subs.c).  A node is named by the   *)
(* path of tokens that leads to it; it keeps its children in order, the    *)
(* subscriptions (leaves) and the retained message.                        *)
(*                                                                         *)
(* Topics and filters are sequences of tokens, as _sub_topic_tokenise      *)
(* makes them: the first is the empty token, or one that begins with "$".  *)
(* The walks of the code look for that token among the children of the     *)
(* root, and once more below the child found.                              *)
(***************************************************************************)
EXTENDS Topics

Empty == <<>>
Plus == <<"+">>
Sharp == <<"#">>
Sys == <<"$", "SYS">>

\* No retained message.
NoBody == 0

EmptyNode == [kids |-> <<>>, subs |-> <<>>, retained |-> NoBody]

\* The tree mqtt3_db_open makes.
NewTree ==
    [p \in {<<>>, <<Empty>>, <<Sys>>} |->
       IF p = <<>> THEN [EmptyNode EXCEPT !.kids = <<Empty, Sys>>] ELSE EmptyNode]

\* Where the tokens lead to.
node_path(tokens) == <<Head(tokens)>> \o tokens

prefixes(path) == {SubSeq(path, 1, n) : n \in 0..Len(path)}

-----------------------------------------------------------------------------
(* Adding and removing.                                                    *)

\* The missing branches of a path, each behind its older siblings.
grow(tree, path) ==
    [p \in DOMAIN tree \cup prefixes(path) |->
       LET node == IF p \in DOMAIN tree THEN tree[p] ELSE EmptyNode
           next == SubSeq(path, 1, Len(p) + 1)
       IN IF p \in prefixes(path) /\ p # path /\ next \notin DOMAIN tree
          THEN [node EXCEPT !.kids = Append(@, Last(next))]
          ELSE node]

\* A first token that is new replaces all children of the root: the link to
\* them is overwritten.
root_child(tree, token) ==
    IF <<token>> \in DOMAIN tree THEN tree
    ELSE [p \in {<<>>, <<token>>} |->
            IF p = <<>> THEN [tree[<<>>] EXCEPT !.kids = <<token>>] ELSE EmptyNode]

\* A second subscription of a context to one filter only changes the QoS.
subscribe_leaf(subs, i, qos) ==
    IF \E k \in DOMAIN subs : subs[k].context = i
    THEN [k \in DOMAIN subs |->
            IF subs[k].context = i THEN [subs[k] EXCEPT !.qos = qos] ELSE subs[k]]
    ELSE Append(subs, [context |-> i, qos |-> qos])

mqtt3_sub_add(tree, i, qos, tokens) ==
    [grow(root_child(tree, Head(tokens)), node_path(tokens)) EXCEPT
       ![node_path(tokens)].subs = subscribe_leaf(@, i, qos)]

\* What is left of a list of subscriptions or children.
only(list, stays) ==
    LET step(kept, x) == IF x \in stays THEN Append(kept, x) ELSE kept
    IN FoldLeft(step, <<>>, list)

without(subs, i) == only(subs, {leaf \in Range(subs) : leaf.context # i})

bare(node) == node.subs = <<>> /\ node.retained = NoBody

\* The tree without the nodes in gone.
cut(tree, gone) ==
    [p \in DOMAIN tree \ gone |->
       [tree[p] EXCEPT !.kids = only(@, {t \in Range(@) : Append(p, t) \notin gone})]]

\* Branches that the removal leaves bare are freed, from the far end of the path
\* as long as they have no other children.
mqtt3_sub_remove(tree, i, tokens) ==
    IF node_path(tokens) \notin DOMAIN tree THEN tree
    ELSE LET path == node_path(tokens)
             left == [tree EXCEPT ![path].subs = without(@, i)]
             gone == {p \in prefixes(path) :
                        /\ Len(p) >= 2
                        /\ \A q \in DOMAIN left :
                             IsPrefix(p, q) => IsPrefix(q, path) /\ bare(left[q])}
         IN cut(left, gone)

\* All subscriptions of a context go, and every branch that is bare then.
mqtt3_subs_clean_session(tree, i) ==
    LET left == [p \in DOMAIN tree |-> [tree[p] EXCEPT !.subs = without(@, i)]]
        gone == {p \in DOMAIN left :
                   Len(p) >= 2 /\ \A q \in DOMAIN left : IsPrefix(p, q) => bare(left[q])}
    IN cut(left, gone)

-----------------------------------------------------------------------------
(* Searching.                                                              *)

\* The nodes whose subscriptions a topic matches, in the order of the walk, and
\* whether a retained message is set there.  A node of depth n is compared with
\* token n - 1; at the end of the topic only "#" still matches.
_sub_search(tree, tokens) ==
    LET walk[p \in DOMAIN tree] ==
          LET more == Len(p) <= Len(tokens)
              branch(t) ==
                LET q == Append(p, t)
                    here == [node |-> q, set_retain |-> Plus \notin Range(q)]
                IN IF more /\ t \in {tokens[Len(p)], Plus}
                   THEN walk[q] \o (IF Len(p) = Len(tokens) THEN <<here>> ELSE <<>>)
                   ELSE IF t = Sharp /\ tree[q].kids = <<>>
                   THEN <<[here EXCEPT !.set_retain = FALSE]>>
                   ELSE <<>>
          IN FlattenSeq([k \in DOMAIN tree[p].kids |-> branch(tree[p].kids[k])])
    IN IF <<Head(tokens)>> \in DOMAIN tree THEN walk[<<Head(tokens)>>] ELSE <<>>

\* The nodes whose retained messages a new subscription gets.  The search below
\* a branch tells by its flag that it has met the final "#", so that the branch
\* itself counts, too.
_retain_search(tree, tokens) ==
    LET walk[p \in DOMAIN tree] ==
          LET n == IF Len(p) <= Len(tokens) THEN Len(p) ELSE Len(tokens)
              token == tokens[n]
              kids == tree[p].kids
              sharp == token = Sharp /\ n = Len(tokens)
              held(q) == IF tree[q].retained = NoBody THEN <<>> ELSE <<q>>
              branch(k) ==
                LET q == Append(p, kids[k])
                    last == k = Len(kids)
                IN IF sharp THEN held(q) \o walk[q].found
                   ELSE IF kids[k] # Plus /\ token \in {kids[k], Plus}
                   THEN IF n = Len(tokens) THEN held(q)
                        ELSE walk[q].found \o
                             (IF walk[q].flag \/ (last /\ tokens[n + 1] = Sharp /\ n > 1)
                              THEN held(q) ELSE <<>>)
                   ELSE <<>>
          IN [flag |-> sharp /\ kids # <<>>,
              found |-> FlattenSeq([k \in DOMAIN kids |-> branch(k)])]
    IN IF <<Head(tokens)>> \in DOMAIN tree THEN walk[<<Head(tokens)>>].found ELSE <<>>
=============================================================================
