----------------------------- MODULE PsnPersist -----------------------------
(***************************************************************************)
(* PsnClients with the config file: save_file, load_file and -c of         *)
(* psn_cli.c over psn_serialize_config and psn_deserialize_config.         *)
(*                                                                         *)
(* A save empties the file first and reads the three lists one after the   *)
(* other while the loop thread keeps changing them.  No user has a public  *)
(* key (nothing ever sets user_t.pub_key), so the serializer always takes  *)
(* the branch for users without a key, and that branch appends to the      *)
(* array "friends" in all three loops.                                     *)
(***************************************************************************)
EXTENDS PsnClients

CONSTANTS
    Savers,      \* the users who save and load
    MaxEntries   \* bound on the entries under one name a load may lead to

ASSUME SaversAssumption == Savers \subseteq Users /\ MaxEntries \in Nat

VARIABLE file   \* file[u]: what is on u's disk

persistVars == <<vars, file>>

\* The arrays "friends", "friendrqsinc" and "friendrqsout" as bags of names.
Config(f, i, o) == [state |-> "config", friends |-> f, incoming |-> i, outgoing |-> o]

NoFile == [state |-> "absent"]
EmptyFile == [state |-> "empty"]

SaveOps == {"save_friends", "save_incoming", "save_outgoing", "save_write"}

PersistTypeOK ==
    \A u \in Users :
        /\ {friends[u], friend_requests_incoming[u], friend_requests_outgoing[u]}
              \subseteq [Users -> Nat]
        /\ \/ cli[u] \in [op : {"idle", "add", "accept"}, target : Users]
           \/ cli[u] \in [op : SaveOps, names : [Users -> Nat]]
        /\ \/ file[u] \in {NoFile, EmptyFile}
           \/ /\ DOMAIN file[u] = {"state", "friends", "incoming", "outgoing"}
              /\ {file[u].friends, file[u].incoming, file[u].outgoing}
                    \subseteq [Users -> Nat]

PersistInit ==
    /\ Init
    /\ file = [u \in Users |-> NoFile]

-----------------------------------------------------------------------------

Merge(list1, list2) == [n \in Users |-> list1[n] + list2[n]]

Saving(u, op, names) == cli' = [cli EXCEPT ![u] = [op |-> op, names |-> names]]

\* fopen(filename, "w")
psn_cli_save_file(u) ==
    /\ Idle(u)
    /\ file' = [file EXCEPT ![u] = EmptyFile]
    /\ Saving(u, "save_friends", EmptyList(Users))
    /\ UNCHANGED <<lists, connected, started, net, asked, shown>>

\* One of the three loops of psn_serialize_config.
serialize_list(u, op, list, next) ==
    /\ cli[u].op = op
    /\ Saving(u, next, Merge(cli[u].names, list))
    /\ UNCHANGED <<lists, connected, started, net, asked, shown, file>>

psn_serialize_config(u) ==
    \/ serialize_list(u, "save_friends", friends[u], "save_incoming")
    \/ serialize_list(u, "save_incoming", friend_requests_incoming[u], "save_outgoing")
    \/ serialize_list(u, "save_outgoing", friend_requests_outgoing[u], "save_write")

\* fwrite and fclose
save_write(u) ==
    /\ cli[u].op = "save_write"
    /\ file' = [file EXCEPT ![u] =
                   Config(cli[u].names, EmptyList(Users), EmptyList(Users))]
    /\ Leave(u)
    /\ UNCHANGED <<lists, connected, started, net, asked, shown>>

\* Mutant of psn_deserialize_config: every friend gets the user's own name.
deserialize_own_name(u) ==
    /\ file[u].state = "config"
    /\ friends' = [friends EXCEPT ![u] =
          IF file[u].friends = EmptyList(Users) THEN @ ELSE HASH_ADD_STR(@, u)]
    /\ UNCHANGED <<friend_requests_incoming, friend_requests_outgoing,
                   connected, started, cli, net, asked, shown>>

\* Every entry of the file is added to its list; the lists are not emptied.
psn_deserialize_config(u) ==
    /\ file[u].state = "config"
    /\ \A n \in Users : friends[u][n] + file[u].friends[n] <= MaxEntries
    /\ friends' = [friends EXCEPT ![u] = Merge(@, file[u].friends)]
    /\ friend_requests_incoming' =
          [friend_requests_incoming EXCEPT ![u] = Merge(@, file[u].incoming)]
    /\ friend_requests_outgoing' =
          [friend_requests_outgoing EXCEPT ![u] = Merge(@, file[u].outgoing)]
    /\ UNCHANGED <<connected, started, cli, net, asked, shown>>

\* The JSON of an empty file has no root and no "username", so the strcpy of
\* psn_deserialize_config reads NULL: the process dies.
load_empty(u) ==
    /\ file[u].state = "empty"
    /\ exit(u)

psn_cli_load_file(u) ==
    /\ Idle(u)
    /\ psn_deserialize_config(u) \/ load_empty(u)
    /\ UNCHANGED file

PersistNext ==
    \/ Next /\ UNCHANGED file
    \/ \E u \in Savers :
          \/ psn_cli_save_file(u) \/ psn_serialize_config(u) \/ save_write(u)
          \/ psn_cli_load_file(u)

PersistSpec == PersistInit /\ [][PersistNext]_persistVars

-----------------------------------------------------------------------------
(* Properties.                                                             *)

Contact(u, v) == <<u, v>> \in asked \/ <<v, u>> \in asked

\* Saving, crashing in the middle of a save, and loading as often as one likes
\* never makes somebody a friend, or puts somebody into the file, who was not
\* at one end of a friend request with the user.
FriendsByContact ==
    \A u, v \in Users :
        \/ HASH_FIND_STR(friends[u], v)
        \/ file[u].state = "config" /\ HASH_FIND_STR(file[u].friends, v)
        => Contact(u, v)
=============================================================================
