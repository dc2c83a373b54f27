--------------------------- MODULE MCChatterloopBot ---------------------------
(* Small timelines for TLC. *)
EXTENDS ChatterloopBot

CONSTANTS self, ann, bob, dm, group, post, nopost

(* A group message that names the bot, a comment that does, a group reply,  *)
(* another message that names the bot, and a comment that is only a reply.  *)
PlaceMixed  == <<group, post, group, group, post>>
AuthorMixed == <<ann, ann, ann, ann, ann>>

(* A group mention, two group replies of one author, a DM, a mention on a post *)
(* and one without a post, a reply on a post, and a group reply of another   *)
(* author.                                                                  *)
PlaceHeard  == <<group, group, group, dm, post, nopost, post, group>>
AuthorHeard == <<ann, ann, ann, ann, ann, ann, bob, bob>>

(* Two messages of one author that name the bot. *)
PlaceMentions  == <<group, group>>
AuthorMentions == <<ann, ann>>

(* Two comments on one post: the second brings the first one's row back.    *)
PlaceComments  == <<post, post>>
AuthorComments == <<ann, bob>>

=============================================================================
