---------------------------- MODULE MCTcpStream ----------------------------
\* Instance of TcpStream for TLC: reads shorter and longer than what libuv
\* hands over at a time.
EXTENDS TcpStream
=============================================================================
