------------------------------- MODULE MCFifo -------------------------------
\* The battery of main.cpp, one that an admin creates by itself or as the child of a
\* splitter, and a client of the admin's FIFO and two of the battery's.
EXTENDS FifoService

CONSTANTS admin1, user1, user2

Users == [c \in Clients |-> CASE c = admin1 -> Admin [] OTHER -> "nullbat"]

\* test_bos_fifo makes "nullbat"; another program may leave all to messages.
Boots == {{"nullbat"}, {}}

Makes == {[name |-> "pseudo", children |-> {}], [name |-> "policy", children |-> {"pseudo"}]}
=============================================================================
