------------------------------ MODULE EventMask ------------------------------
(***************************************************************************)
(* Masks of events: class Events (include/event.h:22) and what lib/epoll.cc *)
(* makes of them.  A mask is the set of its bit numbers.                   *)
(***************************************************************************)
Read  == {0}
Write == {1}
Close == {2}
Error == {3}

\* Mutant: the bit that 0x16 was probably meant to be.
MutantStream == {4}

\* 0x16, which has the bits of Write and Close in it.
Stream == {1, 2, 4}

\* events & flags
Has(events, flags) == events \cap flags # {}

GetEPollEventsFromEvents(events) ==
  IF Has(events, Close) THEN {"EPOLLIN", "EPOLLOUT", "EPOLLRDHUP"}
  ELSE (IF Has(events, Read) THEN {"EPOLLIN"} ELSE {})
       \cup (IF Has(events, Write) THEN {"EPOLLOUT"} ELSE {})
       \cup (IF Has(events, Stream) THEN {"EPOLLRDHUP"} ELSE {})

GetEventsFromEpollEvents(reported) ==
  (IF "EPOLLIN" \in reported THEN Read ELSE {})
  \cup (IF "EPOLLOUT" \in reported THEN Write ELSE {})
  \cup (IF reported \cap {"EPOLLRDHUP", "EPOLLHUP"} # {} THEN Close ELSE {})
  \cup (IF "EPOLLERR" \in reported THEN Error ELSE {})
=============================================================================
