------------------------------ MODULE MCAsterd ------------------------------
(***************************************************************************)
(* A small instance of Asterd for TLC.  One process is started with        *)
(* configuration files of two lines and with arguments of every form, the  *)
(* other one with two commands that compete for the endpoint and the file. *)
(***************************************************************************)
EXTENDS Asterd

CONSTANTS p1, p2

Here  == <<"127.0.0.1", ":", "2">>
There == <<"127.0.0.1", ":", "3">>

\* Lines that are understood: with blanks, with a comment in the value, with values at
\* their limits and in other spellings.
GoodLines ==
  {<<" ", "#", "listen">>,
   <<"listen", " ", "=", " ">> \o Here, <<"listen", "=">> \o There, <<"listen", "=", "host", ":", "2">>,
   <<"max_clients", "=", "0", "9", " ">>,
   <<"idle_timeout_seconds", "=", "8">>,
   <<"log_level", "=", "Warning">>,
   <<"wal_file", "=", "wal">>, <<"wal_file", "=", "wal", " ", "#", "old">>,
   <<"wal_sync", "=", "none">>}

\* Lines that are not.
BadLines ==
  {<<"listen", "=", "127.0.0.1", ":", "6">>, <<"listen", "=", "2">>,
   <<"listen", "=">> \o Here \o <<":", "2">>,
   <<"max_clients", "=", "0">>, <<"max_clients", "=", "1", "0">>,
   <<"idle_timeout_seconds", "=", "9">>,
   <<"log_level", "=", "loud">>,
   <<"wal_file", "=", " ">>, <<"wal_file", "wal">>,
   <<"wal_sync", "=", "None">>,
   <<"=", "wal">>, <<"wal", "=", "=">>}

ConfigFiles ==
  {<<>>} \cup {<<a, b>> : a \in GoodLines, b \in GoodLines \cup BadLines}
         \cup {<<a, <<"wal_file", "=", "wal">>>> : a \in BadLines}

Arguments ==
  {<<>>, <<Here>>, <<<<"2">>>>,
   <<Here, <<"--max-clients">>, <<"9">>, <<"--max-clients">>, <<"2">>>>,
   <<Here, <<"--max-clients">>, <<" ", "9">>>>,
   <<Here, <<"--idle-timeout">>, <<"8">>, <<"--log-level">>, <<"INFO">>>>,
   <<Here, <<"--wal-file">>, <<>>>>,
   <<Here, <<"--wal-file">>, <<"wal">>, <<"--wal-sync">>>>,
   <<There, <<"--wal-file">>, <<"wal">>, <<"--wal-sync">>, <<"fsync_on_flush">>>>,
   <<Here, <<"wal">>, <<"wal">>>>}

Config(files)  == {[mode |-> "config", lines |-> f] : f \in files}
Listening(args)  == {[mode |-> "listen", lines |-> a] : a \in args}
Others         == {[mode |-> k, lines |-> <<>>] : k \in {"help", "local", "unknown", "unreadable"}}

MCPlaces    == {<<"wal">>}
MCAddresses == {<<"127.0.0.1">>}

MCCommands ==
  [p \in Proc |->
     IF p = p1 THEN Config(ConfigFiles) \cup Listening(Arguments) \cup Others
     ELSE Listening({<<Here, <<"--wal-file">>, <<"wal">>>>, <<There, <<"--wal-file">>, <<"wal">>>>})]
=============================================================================
