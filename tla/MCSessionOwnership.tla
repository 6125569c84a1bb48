------------------------- MODULE MCSessionOwnership -------------------------
(* Two hosts compete for one session.  The clock shows 0..2 and a lease    *)
(* lasts one or two units, so leases expire, are renewed before and after  *)
(* expiry, and are taken over.  One request id is reused for another call. *)
EXTENDS SessionOwnership

CONSTANTS h1, h2

Command(req, caller, action, epoch, arg) ==
  [req |-> req, caller |-> caller, action |-> action, epoch |-> epoch, arg |-> arg]

MCCommands ==
  {Command("open",   h1, "open", 0, "id1"),
   Command("acq1",   h1, "acquire", 0, 1),
   Command("acq2",   h2, "acquire", 0, 2),
   Command("renew1", h1, "renew", 1, 2),
   Command("rel1",   h1, "release", 1, 0),
   Command("root1",  h1, "createRoot", 1, "p1"),
   Command("root2",  h2, "createRoot", 2, "p2"),
   Command("root2",  h1, "open", 0, "id2"),
   Command("close",  h2, "close", 2, 0)}
=============================================================================
