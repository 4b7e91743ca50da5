---------------------------- MODULE PasswordFile ----------------------------
(***************************************************************************)
(* mosquitto_passwd, the program that edits password files, and the broker *)
(* that reads them (security_default.c).                                   *)
(*                                                                         *)
(* A file is a sequence of lines [name, word, nl]: what stands before and  *)
(* after the colon, word being NULL if there is none, and whether the line *)
(* ends.  Names and words are sequences of what they are put together      *)
(* from.  pw holds                                                         *)
(*   pc      where the program is                                          *)
(*   cmd     how it was called: [mode, user]                               *)
(*   file    the password file, backup the file beside it, NULL if missing *)
(*   tmp     the temporary file with the new contents                      *)
(*   old     the password file as it was when the program was called       *)
(*   typed   the passwords typed so far                                    *)
(*   echo    whether the terminal shows what is typed                      *)
(*   rc      what the program returned, NULL if it was stopped             *)
(*   full    whether the disk was full                                     *)
(***************************************************************************)
EXTENDS Topics, FiniteSets

CONSTANTS
    PwFiles,    \* password files there may be at first
    PwCommands, \* how the program may be called: [mode, user]
    PwWords,    \* what may be typed as a password
    Salts,      \* what RAND_bytes may return
    MaxCalls    \* bound on the calls of the program

\* A file is a list of lines.
ASSUME PwAssumption == \A file \in PwFiles : file = NULL \/ file \in Seq(Range(file))

VARIABLE pw

PwInit ==
    pw = [pc |-> "new", cmd |-> NULL, file |-> NULL, backup |-> NULL, tmp |-> <<>>, old |-> NULL,
          typed |-> <<>>, echo |-> TRUE, rc |-> NULL, full |-> FALSE, calls |-> 0]

base64_encode(in) == <<"base64">> \o in

_base64_decode(in) == IF in # <<>> /\ Head(in) = "base64" THEN Tail(in) ELSE <<>>

_pw_digest(password, salt) == <<"sha512">> \o password \o salt

-----------------------------------------------------------------------------
(* Lines.                                                                  *)

\* The second token of a line: a line "name:" that ends has an empty one.
second(line) == IF line.word = <<>> /\ ~line.nl THEN NULL ELSE line.word

\* The first token of a line that has no colon includes the end of the line.
is_user(line, username) == line.name = username /\ (line.word # NULL \/ ~line.nl)

\* What is written after a line that does not end becomes part of that line.
fprintf(file, line) ==
    IF file = <<>> \/ Last(file).nl THEN Append(file, line)
    ELSE LET last == Last(file)
             joined == IF last.word = NULL THEN [line EXCEPT !.name = last.name \o @]
                       ELSE [last EXCEPT !.word = @ \o line.name, !.nl = line.nl]
         IN Append(Front(file), joined)

-----------------------------------------------------------------------------
(* The broker.                                                             *)

_pwfile_parse(file) ==
    [n \in DOMAIN file |-> [username |-> file[n].name, password |-> second(file[n])]]

\* Every password must be a digest; the order of the lines is kept.
_unpwd_file_parse(file) ==
    LET users == _pwfile_parse(file)
        hashed(word) == Len(word) > 4 /\ word[1] = "$6$" /\ word[4] = "$"
        decoded(u) == IF u.password = NULL THEN [username |-> u.username, password |-> NULL, salt |-> NULL]
                      ELSE [username |-> u.username, salt |-> _base64_decode(SubSeq(u.password, 2, 3)),
                            password |-> _base64_decode(SubSeq(u.password, 5, Len(u.password)))]
    IN IF \E n \in DOMAIN users : users[n].password # NULL /\ ~hashed(users[n].password) THEN NULL
       ELSE [n \in DOMAIN users |-> decoded(users[n])]

\* Without any user everyone is let in; otherwise the first line of the name tells.
mosquitto_unpwd_check_default(unpwd, username, password) ==
    LET found == SelectSeq(unpwd, LAMBDA u : u.username = username)
    IN \/ unpwd = <<>>
       \/ /\ found # <<>>
          /\ found[1].password # NULL => found[1].password = _pw_digest(password, found[1].salt)

\* A broker that is started with the file lets the user in.
lets_in(file, username, password) ==
    LET unpwd == _unpwd_file_parse(file)
    IN unpwd # NULL /\ mosquitto_unpwd_check_default(unpwd, username, password)

-----------------------------------------------------------------------------
(* What the program writes.                                                *)

output_new_password(file, username, password, salt) ==
    fprintf(file, [name |-> username, nl |-> TRUE,
                   word |-> <<"$6$">> \o base64_encode(<<salt>>) \o <<"$">>
                              \o base64_encode(_pw_digest(password, <<salt>>))])

delete_pwuser(file, username) ==
    LET step(out, line) == IF is_user(line, username) THEN out ELSE fprintf(out, line)
    IN FoldLeft(step, <<>>, file)

update_file(file, salt) ==
    LET step(out, line) ==
          IF second(line) # NULL THEN output_new_password(out, line.name, second(line), salt)
          ELSE fprintf(out, [line EXCEPT !.word = NULL])
    IN FoldLeft(step, <<>>, file)

\* Mutant of update_pwuser: a user who is there already gets a second line.
update_pwuser_appends(file, username, password, salt) ==
    output_new_password(FoldLeft(fprintf, <<>>, file), username, password, salt)

update_pwuser(file, username, password, salt) ==
    LET step(out, line) ==
          IF is_user(line, username) THEN output_new_password(out, username, password, salt)
          ELSE fprintf(out, line)
        updated == FoldLeft(step, <<>>, file)
    IN IF \E n \in DOMAIN file : is_user(file[n], username) THEN updated
       ELSE output_new_password(updated, username, password, salt)

-----------------------------------------------------------------------------
(* The program.                                                            *)

ended(p, rc) == [p EXCEPT !.pc = "ended", !.rc = rc]

unlinked(p) == [p EXCEPT !.backup = NULL]

\* fopen(backup_file, "wt") empties a backup that an earlier call left.
create_backup(p) == [p EXCEPT !.pc = "back up", !.backup = <<>>]

PwCall(cmd) ==
    /\ pw.pc \in {"new", "ended"} /\ pw.calls < MaxCalls
    /\ \E file \in IF pw.pc = "new" THEN PwFiles ELSE {pw.file} :
         LET called == [pw EXCEPT !.cmd = cmd, !.file = file, !.old = file, !.tmp = <<>>, !.typed = <<>>,
                                  !.rc = NULL, !.full = FALSE, !.calls = @ + 1]
         IN pw' = CASE cmd.mode = "c" -> [called EXCEPT !.pc = "ask"]
                    [] cmd.mode # "c" /\ file = NULL -> ended(called, 1)
                    [] OTHER -> create_backup(called)

\* Mutant of copy_contents: the rest of the file is left behind.
copy_contents_one_line(from, to) == to = <<>> /\ from # <<>>

\* There is more to copy.
copy_contents(from, to) == Len(to) < Len(from)

PwBackup ==
    /\ pw.pc = "back up"
    /\ pw' = IF copy_contents(pw.file, pw.backup) THEN [pw EXCEPT !.backup = Append(@, pw.file[Len(@) + 1])]
             ELSE [pw EXCEPT !.pc = IF pw.cmd.mode = "set" THEN "ask" ELSE "edit"]

PwNoTmpfile == pw.pc \in {"ask", "edit"} /\ pw.cmd.mode # "c" /\ pw.typed = <<>> /\ pw.echo /\ pw' = ended(pw, 1)

gets_quiet == pw.pc = "ask" /\ pw.echo /\ pw' = [pw EXCEPT !.echo = FALSE]

\* After the second password get_password compares them.
get_password(word) ==
    LET typed == Append(pw.typed, word)
        wrong == word = <<>> \/ (Len(typed) = 2 /\ typed[1] # typed[2])
        read == [pw EXCEPT !.echo = TRUE, !.typed = typed]
    IN /\ pw.pc = "ask" /\ ~pw.echo
       /\ pw' = CASE wrong /\ pw.cmd.mode = "c" -> ended(read, 1)
                  [] wrong /\ pw.cmd.mode # "c" -> unlinked(ended(read, 1))
                  [] OTHER -> IF Len(typed) = 2 THEN [read EXCEPT !.pc = "edit"] ELSE read

\* With -c the file is emptied and written at once.
PwCreate(salt) ==
    /\ pw.pc = "edit" /\ pw.cmd.mode = "c"
    /\ \/ pw' = ended([pw EXCEPT !.file = output_new_password(<<>>, pw.cmd.user, pw.typed[1], salt)], 0)
       \/ pw' = ended([pw EXCEPT !.file = <<>>], 1)

\* The new contents go to the temporary file; without entropy nothing is changed.
PwEdit(salt) ==
    /\ pw.pc = "edit" /\ pw.cmd.mode # "c"
    /\ \/ LET new == CASE pw.cmd.mode = "D" -> delete_pwuser(pw.file, pw.cmd.user)
                       [] pw.cmd.mode = "U" -> update_file(pw.file, salt)
                       [] OTHER -> update_pwuser(pw.file, pw.cmd.user, pw.typed[1], salt)
          IN pw' = [pw EXCEPT !.tmp = new, !.file = <<>>, !.pc = "copy"]
       \/ pw.cmd.mode # "D" /\ pw' = unlinked(ended(pw, 1))

PwCopy ==
    /\ pw.pc = "copy"
    /\ pw' = IF copy_contents(pw.tmp, pw.file) THEN [pw EXCEPT !.file = Append(@, pw.tmp[Len(@) + 1])]
             ELSE unlinked(ended(pw, 0))

\* What fwrite keeps in its buffer is lost when fclose fails, which is not looked
\* at; only larger files make fwrite fail.
PwDiskFull ==
    LET full == [pw EXCEPT !.full = TRUE]
    IN \/ /\ pw.pc = "back up" /\ copy_contents(pw.file, pw.backup)
          /\ pw' \in {ended(full, 1), [full EXCEPT !.pc = IF pw.cmd.mode = "set" THEN "ask" ELSE "edit"]}
       \/ /\ pw.pc = "copy" /\ copy_contents(pw.tmp, pw.file)
          /\ pw' \in {ended(full, 1), unlinked(ended(full, 0))}

handle_sigint == pw.pc \notin {"new", "ended"} /\ pw' = ended([pw EXCEPT !.echo = TRUE], NULL)

PwNext ==
    \/ \E cmd \in PwCommands : PwCall(cmd)
    \/ PwBackup \/ PwNoTmpfile \/ gets_quiet \/ PwCopy \/ PwDiskFull \/ handle_sigint
    \/ \E word \in PwWords : get_password(word)
    \/ \E salt \in Salts : PwCreate(salt) \/ PwEdit(salt)

PwSpec == PwInit /\ [][PwNext]_pw

-----------------------------------------------------------------------------
(* Properties.                                                             *)

\* Stopped at any point, the program leaves the passwords somewhere: in the
\* file, as they were or as they were to become, or in the backup beside it
\* (main and create_backup in mosquitto_passwd.c).  With -c they are meant to
\* go.  A full disk can take everything, as the result of fclose is ignored.
NothingLost ==
    pw.pc # "new" /\ pw.old # NULL /\ pw.cmd.mode # "c" /\ ~pw.full =>
      \/ pw.file = pw.old \/ pw.backup = pw.old
      \/ pw.pc = "ended" /\ pw.rc = 0 /\ pw.file = pw.tmp

\* The program has done what it was asked to do, to a file in which every line
\* ends and the user does not stand without a colon.
done == pw.pc = "ended" /\ pw.rc = 0 /\ ~pw.full

proper(file, user) ==
    \A n \in DOMAIN file : file[n].nl /\ ~(file[n].name = user /\ file[n].word = NULL)

\* Once the program has returned 0 the broker accepts the password that was
\* typed, and no other, for the user; a user that was deleted is not let in,
\* unless nobody is left in the file, when the broker lets in everyone; and -U
\* leaves each user the password that stood in the file.  (The lines that
\* mosquitto_passwd.c writes are understood by security_default.c.)
PasswordsTake ==
    done /\ (pw.cmd.mode # "c" => proper(pw.old, pw.cmd.user)) /\ _unpwd_file_parse(pw.file) # NULL =>
      CASE pw.cmd.mode \in {"c", "set"} -> \A word \in PwWords : lets_in(pw.file, pw.cmd.user, word) <=> word = pw.typed[1]
        [] pw.cmd.mode = "D" -> pw.file # <<>> => \A word \in PwWords : ~lets_in(pw.file, pw.cmd.user, word)
        [] pw.cmd.mode = "U" ->
             \A n \in DOMAIN pw.old :
               pw.old[n].word # NULL /\ (\A m \in 1..(n - 1) : pw.old[m].name # pw.old[n].name) =>
                 lets_in(pw.file, pw.old[n].name, pw.old[n].word)

\* Setting or deleting one user's password changes nothing for the others.
OthersKept ==
    done /\ pw.cmd.mode \in {"D", "set"} /\ proper(pw.old, pw.cmd.user) =>
      \A n \in DOMAIN pw.old : \A word \in PwWords :
        pw.old[n].name # pw.cmd.user => (lets_in(pw.file, pw.old[n].name, word) <=> lets_in(pw.old, pw.old[n].name, word))

\* Whatever ends the program, a password typed wrongly or a signal in the middle
\* of it, the terminal shows again what is typed (gets_quiet, handle_sigint).
EchoComesBack == pw.pc = "ended" => pw.echo

\* mosquitto_passwd may be stopped at any point: neither the passwords nor the
\* terminal suffer from it.
StoppedSafely == NothingLost /\ EchoComesBack

\* A password is what was typed last for its user, and nothing else has changed.
PasswordsAsTyped == PasswordsTake /\ OthersKept
=============================================================================
