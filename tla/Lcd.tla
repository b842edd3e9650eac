-------------------------------- MODULE Lcd --------------------------------
(***************************************************************************)
(* The ST7789 panel of the esp32 boards (src/src/platform/esp32/lcd.c).   *)
(* The kernel's task copies pixels into staging bands and queues them; the *)
(* DMA sends queued transfers in order, reading each buffer when its turn  *)
(* comes, and gives a counting semaphore for each.  The panel cannot be    *)
(* read, so a copy of what was drawn is kept: in colour where there is     *)
(* PSRAM, else one bit a pixel.  A pixel is 0 (black), 1 (dark) or 2       *)
(* (bright); Ink is the cursor's colour.                                   *)
(***************************************************************************)
EXTENDS Integers, Sequences

CONSTANTS LCD_W, LCD_H, BAND_ROWS, NBAND, CURSOR_R,
          Rects,      \* the rectangles drawn
          Places,     \* the places the cursor is put, on the glass or near it
          MaxDraws,   \* calls
          LcdFaults   \* what may go wrong: "refuse" a transfer, "stall" the DMA, "probe"

VARIABLES glass,     \* what the panel shows
          copy,      \* "colour", "bits" or "none"
          kept,      \* cshadow, or shadow
          bands,     \* the staging buffers
          bandi,
          dma,       \* the driver's queue: [rect, from, band, px], oldest first
          sem,      \* the semaphore's count
          refused,
          outstanding,
          todo,      \* what the call in progress still has to do
          cur,       \* curx, cury, curshown
          draws,     \* calls made
          erred      \* a call failed, a wait gave up, or the probe ran
lcd_vars == <<glass, copy, kept, bands, bandi, dma, sem, refused, outstanding, todo, cur, draws, erred>>

Ink == 3
Noise == 4
Rect(x, y, w, h) == [x |-> x, y |-> y, w |-> w, h |-> h]
Cells(r) == (r.x .. r.x + r.w - 1) \X (r.y .. r.y + r.h - 1)
Glass == Rect(0, 0, LCD_W, LCD_H)
Paint(old, px) == [p \in DOMAIN old |-> IF p \in DOMAIN px THEN px[p] ELSE old[p]]

(* A rectangle's bands, top to bottom. *)
Band(r, i) == Rect(r.x, r.y + i * BAND_ROWS, r.w,
                   IF r.h - i * BAND_ROWS < BAND_ROWS THEN r.h - i * BAND_ROWS ELSE BAND_ROWS)
Bands(r) == [i \in 1 .. (r.h + BAND_ROWS - 1) \div BAND_ROWS |-> Band(r, i - 1)]

(* ---- the copy ---- *)

(* Brightness for fill and load, any bit set for load16. *)
shadow_ink(c) == c = 2
Bit(c, wide) == IF wide THEN c # 0 ELSE shadow_ink(c)

Keeping(old, px, wide) ==
    CASE copy = "colour" -> Paint(old, px)
      [] copy = "bits" -> Paint(old, [p \in DOMAIN px |-> IF Bit(px[p], wide) THEN 2 ELSE 0])
      [] OTHER -> old

(* White for ink where only bits are kept. *)
unload_px(p) == kept[p]

(* One bit a pixel, for a screenshot: ink is whatever is not black. *)
luaos_lcd_unload1(p) == kept[p] # 0

(* ---- the cursor ---- *)

Clip(v, hi) == IF v < 0 THEN 0 ELSE IF v > hi THEN hi ELSE v

cursor_rect ==
    LET x0 == Clip(cur.x - CURSOR_R, LCD_W)
        y0 == Clip(cur.y - CURSOR_R, LCD_H)
        x1 == Clip(cur.x + CURSOR_R + 1, LCD_W)
        y1 == Clip(cur.y + CURSOR_R + 1, LCD_H)
    IN  IF cur.x < 0 \/ cur.y < 0 \/ copy # "colour" THEN Rect(0, 0, 0, 0)
        ELSE Rect(x0, y0, x1 - x0, y1 - y0)

(* The arms are drawn by index in a buffer as wide as the clipped rectangle,
   so an arm beyond its edge lands in another row. *)
Arms(r) ==
    LET index(col, row) == row * r.w + col
        drawn == {index(c, cur.y - r.y) : c \in 0 .. r.w - 1} \cup {index(cur.x - r.x, i) : i \in 0 .. r.h - 1}
    IN  {p \in Cells(r) : index(p[1] - r.x, p[2] - r.y) \in drawn}

cursor_blit(with) ==
    LET r == cursor_rect
    IN  IF Cells(r) = {} THEN <<>>
        ELSE <<[do |-> "rect", rect |-> r, from |-> "stack",
                px |-> [p \in Cells(r) |-> IF with /\ p \in Arms(r) THEN Ink ELSE kept[p]]]>>

cursor_hit(r) == cur.on /\ Cells(cursor_rect) \cap Cells(r) # {}

(* ---- transfers ---- *)

Pixels(t) ==
    CASE t.from = "stack" -> t.px
      [] t.from = "copy" -> [p \in Cells(t.rect) |-> kept[p]]
      [] OTHER -> bands[t.band]

(* The DMA takes the oldest transfer's pixels as they are now, and says so.
   A completion the semaphore cannot hold is counted and lost. *)
transdone ==
    /\ dma # <<>>
    /\ glass' = Paint(glass, Pixels(Head(dma)))
    /\ dma' = Tail(dma)
    /\ IF sem < NBAND THEN sem' = sem + 1 /\ UNCHANGED refused
                       ELSE refused' = refused + 1 /\ UNCHANGED sem
    /\ UNCHANGED <<copy, kept, bands, bandi, outstanding, todo, cur, draws, erred>>

(* A buffer is free when fewer transfers are out than there are buffers. *)
BandRoom == outstanding < NBAND

Waits ==
    /\ todo # <<>>
    /\ \/ Head(todo).do = "drain" /\ outstanding > 0
       \/ Head(todo).do \in {"band", "rect"} /\ ~BandRoom

waitone ==
    /\ Waits /\ sem > 0
    /\ sem' = sem - 1
    /\ outstanding' = outstanding - 1
    /\ UNCHANGED <<glass, copy, kept, bands, bandi, dma, refused, todo, cur, draws, erred>>

(* Two seconds without a completion: the count starts over. *)
GivesUp ==
    /\ Waits /\ sem = 0 /\ "stall" \in LcdFaults
    /\ outstanding' = 0
    /\ erred' = TRUE
    /\ UNCHANGED <<glass, copy, kept, bands, bandi, dma, sem, refused, todo, cur, draws>>

(* bandnext, the fill of that buffer, and sendband.  A refused transfer ends
   the call with the buffer already counted as handed out. *)
HandsSame == bandi
Handed == (bandi + 1) % NBAND

sendband ==
    /\ todo # <<>> /\ Head(todo).do = "band" /\ BandRoom
    /\ bands' = [bands EXCEPT ![bandi] = Head(todo).px]
    /\ bandi' = Handed
    /\ kept' = Keeping(kept, IF Head(todo).keeps THEN Head(todo).px ELSE <<>>, Head(todo).wide)
    /\ \/ /\ dma' = Append(dma, [rect |-> Head(todo).rect, from |-> "band", band |-> bandi, px |-> <<>>])
          /\ outstanding' = outstanding + 1
          /\ todo' = Tail(todo)
          /\ UNCHANGED erred
       \/ /\ "refuse" \in LcdFaults
          /\ todo' = <<>>
          /\ erred' = TRUE
          /\ UNCHANGED <<dma, outstanding>>
    /\ UNCHANGED <<glass, copy, sem, refused, cur, draws>>

(* A rectangle from the stack, the copy or (the diagnostic) the first band,
   waited for. *)
sendrect ==
    /\ todo # <<>> /\ Head(todo).do = "rect" /\ BandRoom
    /\ \/ /\ dma' = Append(dma, [rect |-> Head(todo).rect, from |-> Head(todo).from, band |-> 0,
                               px |-> Head(todo).px])
          /\ outstanding' = outstanding + 1
          /\ todo' = <<[do |-> "drain"]>> \o Tail(todo)
          /\ UNCHANGED erred
       \/ /\ "refuse" \in LcdFaults
          /\ todo' = IF Head(todo).from = "copy" THEN <<>> ELSE Tail(todo)
          /\ erred' = TRUE
          /\ UNCHANGED <<dma, outstanding>>
    /\ UNCHANGED <<glass, copy, kept, bands, bandi, sem, refused, cur, draws>>

drain ==
    /\ todo # <<>> /\ Head(todo).do = "drain" /\ outstanding = 0
    /\ todo' = Tail(todo)
    /\ UNCHANGED <<glass, copy, kept, bands, bandi, dma, sem, refused, outstanding, cur, draws, erred>>

(* After a draw, the cursor is put back on top if the draw touched it. *)
Restored(r) == cursor_hit(r)

PutBack ==
    /\ todo # <<>> /\ Head(todo).do = "hit"
    /\ todo' = (IF Restored(Head(todo).rect) THEN cursor_blit(TRUE) ELSE <<>>) \o Tail(todo)
    /\ UNCHANGED <<glass, copy, kept, bands, bandi, dma, sem, refused, outstanding, cur, draws, erred>>

(* ---- the calls of los.platform.fb ---- *)

Free == todo = <<>> /\ draws < MaxDraws

(* A rectangle off the screen raises before anything is drawn. *)
checkrect(r) ==
    /\ r.x >= 0 /\ r.y >= 0 /\ r.w >= 0 /\ r.h >= 0
    /\ r.x + r.w <= LCD_W /\ r.y + r.h <= LCD_H

Hit(r) == <<[do |-> "hit", rect |-> r]>>
Staged(r, px, keeps, wide) ==
    [i \in 1 .. Len(Bands(r)) |->
        [do |-> "band", rect |-> Bands(r)[i], keeps |-> keeps, wide |-> wide,
         px |-> [p \in Cells(Bands(r)[i]) |-> px[p]]]]
Calls(steps) ==
    /\ Free
    /\ draws' = draws + 1
    /\ todo' = steps
    /\ UNCHANGED <<glass, copy, bands, bandi, dma, sem, refused, outstanding>>

(* The copy first, all of it; then the bands. *)
luaos_lcd_fill(r, c) ==
    LET px == [p \in Cells(r) |-> c]
    IN  /\ checkrect(r)
        /\ Calls(Staged(r, px, FALSE, FALSE) \o Hit(r))
        /\ kept' = Keeping(kept, px, FALSE)
        /\ UNCHANGED <<cur, erred>>

(* The copy band by band, with the brightness rule for four-byte pixels. *)
Checker(r, c) == [p \in Cells(r) |-> IF (p[1] + p[2]) % 2 = 0 THEN c ELSE 0]
Loading(r, c, wide) ==
    /\ checkrect(r)
    /\ Calls(Staged(r, Checker(r, c), TRUE, wide) \o Hit(r))
    /\ UNCHANGED <<kept, cur, erred>>
luaos_lcd_load(r, c) == Loading(r, c, FALSE)
luaos_lcd_load16(r, c) == Loading(r, c, TRUE)

(* Whole rows move in the copy, and are sent from there. *)
Shifted(y, toy, h) ==
    [p \in DOMAIN kept |-> IF p[2] \in toy .. toy + h - 1 THEN kept[<<p[1], y + p[2] - toy>>] ELSE kept[p]]
luaos_lcd_scroll(y, toy, h) ==
    LET r == Rect(0, toy, LCD_W, h)
    IN  /\ copy = "colour"
        /\ Calls([i \in 1 .. Len(Bands(r)) |->
                      [do |-> "rect", rect |-> Bands(r)[i], from |-> "copy", px |-> <<>>]] \o Hit(r))
        /\ kept' = Shifted(y, toy, h)
        /\ UNCHANGED <<cur, erred>>

(* Erase, move, draw; -1 leaves a coordinate or the visibility alone.  The
   move is a step of its own: the pixels under the cursor are read before and
   after it. *)
Placed(x, y, on) ==
    [x |-> IF x >= 0 THEN x ELSE cur.x, y |-> IF y >= 0 THEN y ELSE cur.y,
     on |-> IF on >= 0 THEN on = 1 ELSE cur.on]
luaos_lcd_cursor(x, y, on) ==
    /\ copy = "colour"
    /\ Calls((IF cur.on THEN cursor_blit(FALSE) ELSE <<>>) \o <<[do |-> "move", to |-> Placed(x, y, on)]>>)
    /\ UNCHANGED <<kept, cur, erred>>

CursorMoves ==
    /\ todo # <<>> /\ Head(todo).do = "move"
    /\ cur' = Head(todo).to
    /\ todo' = IF cur'.on THEN <<[do |-> "shown"]>> \o Tail(todo) ELSE Tail(todo)
    /\ UNCHANGED <<glass, copy, kept, bands, bandi, dma, sem, refused, outstanding, draws, erred>>

Shows ==
    /\ todo # <<>> /\ Head(todo).do = "shown"
    /\ todo' = cursor_blit(TRUE) \o Tail(todo)
    /\ UNCHANGED <<glass, copy, kept, bands, bandi, dma, sem, refused, outstanding, cur, draws, erred>>

(* The diagnostic queues a black row behind a full set of bands.  It writes
   the glass and not the copy. *)
TopRow == Rect(0, 0, LCD_W, 1)
luaos_lcd_spiprobe ==
    LET black == [p \in Cells(TopRow) |-> 0]
    IN  /\ "probe" \in LcdFaults
        /\ Calls(<<[do |-> "drain"]>>
                  \o [i \in 1 .. NBAND |-> [do |-> "band", rect |-> TopRow, keeps |-> FALSE, wide |-> FALSE, px |-> black]]
                  \o <<[do |-> "rect", rect |-> TopRow, from |-> "band", px |-> black], [do |-> "drain"]>>)
        /\ erred' = TRUE
        /\ UNCHANGED <<kept, cur>>

(* In colour where the memory is found, else in bits, else not at all. *)
luaos_lcd_shadow == copy \in {"colour", "bits", "none"}

(* luaos_lcd_present: the panel is blanked through the bands, and the copy
   starts black. *)
LcdInit ==
    /\ luaos_lcd_shadow
    /\ glass = [p \in Cells(Glass) |-> Noise]
    /\ kept = [p \in Cells(Glass) |-> 0]
    /\ bands = [i \in 0 .. NBAND - 1 |-> <<>>]
    /\ bandi = 0 /\ dma = <<>> /\ sem = 0 /\ refused = 0 /\ outstanding = 0
    /\ todo = Staged(Glass, [p \in Cells(Glass) |-> 0], FALSE, FALSE)
    /\ cur = [x |-> -1, y |-> -1, on |-> FALSE]
    /\ draws = 0 /\ erred = FALSE

LcdNext ==
    \/ transdone \/ waitone \/ GivesUp \/ sendband \/ sendrect \/ drain \/ PutBack \/ CursorMoves \/ Shows
    \/ \E r \in Rects, c \in 1 .. 2 :
          luaos_lcd_fill(r, c) \/ luaos_lcd_load(r, c) \/ luaos_lcd_load16(r, c)
    \/ \E y, toy \in 0 .. 1 : y # toy /\ luaos_lcd_scroll(y, toy, LCD_H - 1)
    \/ \E p \in Places, on \in -1 .. 1 : luaos_lcd_cursor(p[1], p[2], on)
    \/ luaos_lcd_spiprobe

(* ---- properties ---- *)

(* What is on the glass is the copy plus the cursor: between calls, when the
   DMA is idle and nothing failed, every pixel away from the cursor's arms is
   the one the copy answers to a screenshot.  No more transfers are out than
   the semaphore can count (sendband, bandnext, room). *)
Agrees(p) ==
    IF copy = "colour" THEN unload_px(p) = glass[p] /\ (luaos_lcd_unload1(p) <=> glass[p] # 0)
    ELSE (luaos_lcd_unload1(p) => glass[p] # 0) /\ (glass[p] = 2 => luaos_lcd_unload1(p))
UnderCursor(p) == cur.on /\ p \in Arms(cursor_rect)
GlassIsCopy ==
    /\ erred \/ refused = 0
    /\ (todo = <<>> /\ dma = <<>> /\ ~erred /\ copy # "none") =>
          \A p \in Cells(Glass) : IF UnderCursor(p) THEN glass[p] = Ink ELSE Agrees(p)

=============================================================================
