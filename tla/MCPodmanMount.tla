--------------------------- MODULE MCPodmanMount ---------------------------
(***************************************************************************)
(* PodmanMount for TLC: the stores of a user and of the system, and what   *)
(* may be unusual or wrong with them.                                      *)
(***************************************************************************)
EXTENDS PodmanMount

C(i, n) == [id |-> i, name |-> n, metadata |-> TRUE, title |-> n,
            link |-> TRUE, lower |-> TRUE]

Store(configs) ==
  [there |-> TRUE, named |-> TRUE, readable |-> TRUE, configs |-> configs]

\* A user with a shell, one without, and the system.
Sound ==
  [users |-> <<[login |-> TRUE, home |-> "u", conf |-> ""],
               [login |-> FALSE, home |-> "nobody", conf |-> ""]>>,
   system |-> "sys",
   stores |-> [u |-> Store(<<C("1", "web"), C("2", "db")>>),
               sys |-> Store(<<C("3", "mail"), C("4", "log")>>),
               nobody |-> Store(<<C("5", "x")>>)]]

\* The user's storage.conf names another store; another user shares a store;
\* a store is not there, not readable or called otherwise.
Shared == [Sound EXCEPT !.users[2].login = TRUE, !.users[2].conf = "u"]

Storages ==
  {Sound, Shared,
   [Sound EXCEPT !.users[1].conf = "nobody"],
   [Sound EXCEPT !.users = <<>>],
   [Sound EXCEPT !.system = ""],
   [Sound EXCEPT !.stores.u.there = FALSE],
   [Sound EXCEPT !.stores.u.readable = FALSE],
   [Sound EXCEPT !.stores.sys.named = FALSE]}

\* Something about the second entry of the user: no name, a new name, a name
\* that is the system's or another's ID, metadata damaged or without a name, a
\* layer without its files.
Unusual(evidence) ==
  LET With(c) == [evidence EXCEPT !.stores.u.configs[2] = c]
      db == evidence.stores.u.configs[2]
  IN  {With([db EXCEPT !.name = ""]), With([db EXCEPT !.name = "new"]),
       With(C("2", "mail")), With(C("2", "1")),
       With([db EXCEPT !.metadata = FALSE]),
       With([db EXCEPT !.title = ""]), With([db EXCEPT !.link = FALSE]),
       With([db EXCEPT !.lower = FALSE])}

Images == Storages \cup UNION {Unusual(e) : e \in Storages}

AllCommands ==
  [kind : {"all"}, key : {""}] \cup [kind : {"drift"}, key : {"", "2", "db"}]
    \cup [kind : {"mount"}, key : {"2", "db", "mail", "new", "5"}]

\* Two users have a container of the same name.
SameName == {[Sound EXCEPT !.stores.u.configs[2] = C("2", "mail")]}
MountAll == [kind : {"all"}, key : {""}]
=============================================================================
