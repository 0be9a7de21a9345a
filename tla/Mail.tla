-------------------------------- MODULE Mail --------------------------------
(***************************************************************************)
(* The mails of one player: system/mailmaster.c and cmd/misc/from.c.  A    *)
(* mail is a file until a reader, a clone of the mail master, takes it     *)
(* over into its copy of the mail data and saves that; the command 'from'  *)
(* does so in the mail master itself.  Players share nothing here: the     *)
(* mail master keeps no mails between two calls.  Subjects, texts, what is *)
(* already read, and the dialogue of who writes a mail are left out.       *)
(*                                                                         *)
(* Two readers matter at a time, the one that gets the player's next line  *)
(* and the one that is told of mail.  Others do nothing until clean_up()   *)
(* finds them, and are left out.                                           *)
(***************************************************************************)
EXTENDS Naturals, Sequences, FiniteSets

CONSTANTS Readers,    \* The two.
          NoReader,
          MaxMails    \* Bound: so many mails are sent.

ASSUME ReadersAssumption == Cardinality(Readers) = 2 /\ NoReader \notin Readers
ASSUME MaxMailsAssumption == MaxMails \in Nat

VARIABLES
  maildata,   \* The file: the mails in it, and those that are marked for deletion.
  new_files,  \* What the files new_1, new_2, ... hold; <<>> for no file.
  reader,     \* Each reader's copy of the mail data, and whether it is at no mail.
  mail_input, \* The reader that gets the player's next line.
  tmp_reader, \* The property CURRENT_READER of the player.
  mail_link,  \* Has the player a connection?
  posted,     \* How many mails were sent so far: they are numbered.
  odd,        \* Those that hold the separator of the fields in their text.
  owed,       \* History: the mails that were sent and not deleted by the player.
  twice,      \* History: was a reader opened, past the question of another, by '!mail'?
  torn        \* History: has a crash interrupted get_new_mail() after it saved?

disk == <<maildata, new_files>>
mailVars == <<maildata, new_files, reader, mail_input, tmp_reader, mail_link, posted, odd, owed, twice, torn>>

Mails == 1 .. MaxMails
Folders == [mails : SUBSET Mails, doomed : SUBSET Mails]
NoMails == [mails |-> {}, doomed |-> {}]
Gone == [folder |-> NoMails, at0 |-> FALSE]
Names == 1 .. 2 * MaxMails
NoFiles == [n \in Names |-> <<>>]
Unread == {n \in Names : new_files[n] # <<>>}

-----------------------------------------------------------------------------
\* What get_new_mail() takes from a file: nothing, unless it holds the fields of one mail.
Taken(f) == IF Len(f) = 1 THEN {f[1]} \ odd ELSE {}

\* The mail data after get_new_mail().
Fetched(folder, fs) == [folder EXCEPT !.mails = @ \cup UNION {Taken(fs[n]) : n \in Names}]

\* distribute_mail(): the file's number is one more than there are files; write_file()
\* appends to a file of that name.
Written(fs, m) ==
  [fs EXCEPT ![Cardinality({n \in Names : fs[n] # <<>>}) + 1] = Append(@, m)]

\* Mutant: the reader is not told of new mail.
ReaderOfNone == NoReader

\* Who takes a new mail over at once.
ReaderOf == tmp_reader

\* input_line() reads the entry of the current mail, and ends with an error, and no
\* question, if there are mails and none is current.
AskedBy(r, rec) == IF rec.folder.mails # {} /\ rec.at0 THEN NoReader ELSE r

\* The readers once i gets the next line and t is told of mail.
Roles(rd, i, t) ==
  /\ mail_input' = i /\ tmp_reader' = t
  /\ reader' = [r \in Readers |-> IF r \in {i, t} THEN rd[r] ELSE Gone]

-----------------------------------------------------------------------------
MailInit ==
  /\ maildata = NoMails /\ new_files = NoFiles
  /\ reader = [r \in Readers |-> Gone]
  /\ mail_input = NoReader /\ tmp_reader = NoReader
  /\ mail_link = TRUE
  /\ posted = 0 /\ odd = {} /\ owed = {} /\ twice = FALSE /\ torn = FALSE

Numbered(isOdd) ==
  /\ posted < MaxMails /\ posted' = posted + 1
  /\ odd' = IF isOdd THEN odd \cup {posted'} ELSE odd
  /\ owed' = owed \cup {posted'}

\* The mail data of reader r when it has fetched the mail that is just sent.
Told(r, isOdd) ==
  [Fetched(reader[r].folder, new_files) EXCEPT !.mails = IF isOdd THEN @ ELSE @ \cup {posted'}]

\* distribute_mail() of somebody's reader.  It is addressed to the player once, or twice
\* over an alias, and his current reader fetches it at once.
Send(isOdd, again) ==
  /\ Numbered(isOdd)
  /\ LET once == Written(new_files, posted')
         files == IF again THEN Written(once, posted') ELSE once
         r == ReaderOf
     IN  IF r = NoReader
         THEN new_files' = files /\ UNCHANGED <<maildata, reader>>
         ELSE /\ new_files' = NoFiles /\ maildata' = Told(r, isOdd)
              /\ reader' = [reader EXCEPT ![r].folder = Told(r, isOdd)]
  /\ UNCHANGED <<mail_input, tmp_reader, mail_link, twice, torn>>

\* The player's own reader sends, to others or to him, and goes on.
SendAndGoOn ==
  LET r == mail_input
      rec == [reader[r] EXCEPT !.folder = Told(r, FALSE)]
  IN  /\ r # NoReader
      /\ \/ /\ Roles(reader, AskedBy(r, reader[r]), tmp_reader)
            /\ UNCHANGED <<disk, posted, odd, owed>>
         \/ /\ tmp_reader = r
            /\ Numbered(FALSE)
            /\ maildata' = rec.folder /\ new_files' = NoFiles
            /\ Roles([reader EXCEPT ![r] = rec], AskedBy(r, rec), r)
      /\ UNCHANGED <<mail_link, twice, torn>>

\* read_mail() of a new reader.  The question of another one that waits stays.
ReadMail ==
  LET r == CHOOSE x \in Readers : x # mail_input
      folder == Fetched(maildata, new_files)
  IN  /\ mail_link
      /\ Roles([reader EXCEPT ![r] = [folder |-> folder, at0 |-> FALSE]],
               IF mail_input = NoReader THEN r ELSE mail_input, r)
      /\ maildata' = folder /\ new_files' = NoFiles
      /\ twice' = (twice \/ mail_input # NoReader)
      /\ UNCHANGED <<mail_link, posted, odd, owed, torn>>

\* from_cmd(), in the mail master.
From ==
  /\ mail_link /\ Unread # {}
  /\ maildata' = Fetched(maildata, new_files) /\ new_files' = NoFiles
  /\ UNCHANGED <<reader, mail_input, tmp_reader, mail_link, posted, odd, owed, twice, torn>>

\* display_mail(): the mail it shows becomes the current one, and the mail data are saved.
Display(r) ==
  /\ mail_input = r /\ reader[r].folder.mails # {}
  /\ maildata' = reader[r].folder
  /\ reader' = [reader EXCEPT ![r].at0 = FALSE]
  /\ UNCHANGED <<new_files, mail_input, tmp_reader, mail_link, posted, odd, owed, twice, torn>>

\* delete_mail(): one mail is marked, and saved, or a range of them, which is not.
Delete(r) ==
  /\ mail_input = r
  /\ \E S \in SUBSET reader[r].folder.mails \ {{}}, saved \in BOOLEAN :
       /\ saved => Cardinality(S) = 1
       /\ Roles([reader EXCEPT ![r].folder.doomed = @ \cup S], AskedBy(r, reader[r]), tmp_reader)
       /\ maildata' = IF saved THEN [reader[r].folder EXCEPT !.doomed = @ \cup S] ELSE maildata
  /\ UNCHANGED <<new_files, mail_link, posted, odd, owed, twice, torn>>

\* delete_mail() of an entry before the first is an error: no further line is asked for.
DeleteNone ==
  /\ mail_input # NoReader /\ Roles(reader, NoReader, tmp_reader)
  /\ UNCHANGED <<disk, mail_link, posted, odd, owed, twice, torn>>

\* perform_deletion(); then the dialogue goes on, or ends if it was the answer to the
\* question at the end.
Purge(r, ends) ==
  /\ mail_input = r
  /\ LET marked == reader[r].folder.doomed
         rest == [mails |-> reader[r].folder.mails \ marked, doomed |-> {}]
         rec == [folder |-> rest, at0 |-> reader[r].at0 \/ rest.mails = {}]
     IN  /\ ends => marked # {}
         /\ maildata' = rest
         /\ owed' = owed \ marked
         /\ Roles([reader EXCEPT ![r] = rec],
                  IF ends THEN NoReader ELSE AskedBy(r, rec),
                  IF ends /\ tmp_reader = r THEN NoReader ELSE tmp_reader)
  /\ UNCHANGED <<new_files, mail_link, posted, odd, twice, torn>>

\* A reader is destructed: quit_check() without deletion; clean_up(), while the player has
\* no connection.
QuitMail(r) ==
  /\ mail_input = r \/ (tmp_reader = r /\ ~mail_link)
  /\ Roles(reader, IF mail_input = r THEN NoReader ELSE mail_input,
                   IF tmp_reader = r THEN NoReader ELSE tmp_reader)
  /\ UNCHANGED <<disk, mail_link, posted, odd, owed, twice, torn>>

\* The question goes with the connection, the reader that is told and the body stay.
MailLink ==
  /\ mail_link' = ~mail_link
  /\ Roles(reader, NoReader, tmp_reader)
  /\ UNCHANGED <<disk, posted, odd, owed, twice, torn>>

-----------------------------------------------------------------------------
\* What a crash in the midst of get_new_mail() leaves of the files fs: some of them, the
\* first of which are removed already.
Remaining(fs) == {[n \in Names |-> IF n <= k THEN <<>> ELSE fs[n]] : k \in 0 .. 2 * MaxMails}

\* Mutant: the files are removed before the mail data are saved.
RemovedFirst(folder, fs) == {folder} \X Remaining(fs)

\* The mail data and the files, once the mail data were saved.
SavedFirst(folder, fs) == {Fetched(folder, fs)} \X Remaining(fs)

\* The driver ends, while nothing happens or while a reader that is just opened, or was
\* told of a mail, takes files over.
MailCrash ==
  /\ \/ UNCHANGED <<disk, posted, odd, owed, torn>>
     \/ /\ Unread # {}
        /\ \E d \in SavedFirst(maildata, new_files) : maildata' = d[1] /\ new_files' = d[2]
        /\ torn' = (torn \/ new_files' # NoFiles)
        /\ UNCHANGED <<posted, odd, owed>>
     \/ /\ tmp_reader # NoReader
        /\ Numbered(FALSE)
        /\ \E d \in SavedFirst(reader[tmp_reader].folder, Written(new_files, posted')) :
             maildata' = d[1] /\ new_files' = d[2]
        /\ torn' = (torn \/ new_files' # NoFiles)
  /\ Roles(reader, NoReader, NoReader) /\ mail_link' = TRUE
  /\ UNCHANGED twice

MailNext ==
  \/ \E isOdd, again \in BOOLEAN : Send(isOdd, again)
  \/ \E r \in Readers : Display(r) \/ Delete(r) \/ QuitMail(r)
                        \/ \E ends \in BOOLEAN : Purge(r, ends)
  \/ SendAndGoOn \/ ReadMail \/ From \/ DeleteNone \/ MailLink \/ MailCrash

MailSpec == MailInit /\ [][MailNext]_mailVars

-----------------------------------------------------------------------------
(* Properties *)

\* Marked mails are mails, and the files and readers are what they should be.
MailTypeOK ==
  /\ maildata \in Folders /\ maildata.doomed \subseteq maildata.mails
  /\ new_files \in [Names -> Seq(Mails)]
  /\ reader \in [Readers -> [folder : Folders, at0 : BOOLEAN]]
  /\ {mail_input, tmp_reader} \subseteq Readers \cup {NoReader}
  /\ posted \in 0 .. MaxMails /\ odd \cup owed \subseteq Mails

\* A mail that was sent is on the disk until the player deletes it, in the mail data or in
\* a file of its own, however readers, 'from', lost links and crashes follow one another.
\* Three things only lose mails: the separator in a text; a second reader opened past the
\* first one's question, as the first then saves its older copy; and a crash between the
\* removals of files, as the next mail may be written behind one that is left.
MailKept ==
  twice \/ torn \/
  owed \ odd \subseteq maildata.mails \cup {new_files[n][1] : n \in {k \in Unread : Len(new_files[k]) = 1}}

\* What was taken over once is safe even from crashes: no step but the player's deletion
\* removes a mail from the mail data.
FiledStays ==
  [][~twice' => maildata.mails \cap owed' \subseteq maildata'.mails]_mailVars
=============================================================================
