----------------------------- MODULE Connections -----------------------------
(* A session's windows and its daemon, from connection to layout: Attachment  *)
(* has who is connected to whom, LayoutFeed what a window hears of the layout *)
(* over one such connection.  They share no state, as in the program, and     *)
(* their steps interleave.                                                    *)
EXTENDS Attachment, LayoutFeed

ConnectionsSpec == AttachSpec /\ FeedSpec

(* A window's calls and streams go to one daemon, its panes outlive a daemon *)
(* that dies, and its tabs are the daemon's, but for what a lag or the time  *)
(* before its subscription cost.                                             *)
ConnectionsSafe == AttachSafe /\ FeedSafe

(* A connection whose window is gone is let go, the end of a stream and the  *)
(* layout's changes reach the window.                                        *)
ConnectionsEnd == ClientsAreLetGo /\ FeedIsHeard
=============================================================================
