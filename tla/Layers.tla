------------------------------- MODULE Layers -------------------------------
(***************************************************************************)
(* The screen: layers and their windows (layer.cpp, window.cpp,            *)
(* frame_buffer.cpp, graphics.hpp of src/kernel), the mouse that moves and *)
(* drags them (mouse.cpp), and what the main flow draws (main.cpp). All of *)
(* it runs on the main flow, one call after the other; each call is one    *)
(* action with all that it redraws.                                        *)
(*                                                                         *)
(* The screen is a few pixels large. A buffer is a function from its       *)
(* pixels to colors. An operator named _Mutant is what a plausible slip    *)
(* would have made of the definition after it; nothing refers to it.       *)
(***************************************************************************)
EXTENDS Integers, Sequences, SequencesExt

CONSTANTS
  ScreenWidth, ScreenHeight,
  MainWidth, MainHeight,     \* size of main_window
  MainX, MainY,              \* where it is at first
  MouseX, MouseY,            \* where the mouse is at first
  MaxDisplacement            \* bound: how far a report moves the mouse

ASSUME ScreenAssumption ==
  /\ ScreenWidth \in Nat \ {0} /\ ScreenHeight \in Nat \ {0}
  /\ MainWidth \in Nat \ {0} /\ MainHeight \in Nat \ {0}
  /\ MainX \in 0..(ScreenWidth - 1) /\ MainY \in 0..(ScreenHeight - 1)
  /\ MouseX \in 0..(ScreenWidth - 1) /\ MouseY \in 0..(ScreenHeight - 1)
  /\ MaxDisplacement \in Nat

VARIABLES
  start,             \* the next step of the start-up, "done" after it
  layer_stack,       \* from the lowest to the topmost
  pos,               \* pos_ of each layer
  count,             \* what main_window shows
  back_buffer,
  screen,
  position,          \* of the mouse
  previous_pressed,  \* left button of previous_buttons_
  drag_layer_id      \* 0 if none is dragged

mouse == <<position, previous_pressed, drag_layer_id>>
vars == <<start, layer_stack, pos, count, back_buffer, screen, mouse>>

-----------------------------------------------------------------------------
(* Vectors, rectangles, windows.                                           *)

Vec(x, y) == [x |-> x, y |-> y]
Plus(a, b) == Vec(a.x + b.x, a.y + b.y)
Minus(a, b) == Vec(a.x - b.x, a.y - b.y)

ElementMax(a, b) == Vec(IF a.x < b.x THEN b.x ELSE a.x, IF a.y < b.y THEN b.y ELSE a.y)
ElementMin(a, b) == Vec(IF b.x < a.x THEN b.x ELSE a.x, IF b.y < a.y THEN b.y ELSE a.y)

Rect(p, s) == [pos |-> p, size |-> s]

Origin == Vec(0, 0)

\* operator&. Its last comparison is of an x with a y.
Intersection(lhs, rhs) ==
  LET lhs_end == Plus(lhs.pos, lhs.size)
      rhs_end == Plus(rhs.pos, rhs.size)
      new_pos == ElementMax(lhs.pos, rhs.pos)
  IN  IF \/ lhs_end.x < rhs.pos.x \/ lhs_end.y < rhs.pos.y
         \/ rhs_end.x < lhs.pos.x \/ rhs_end.x < lhs.pos.y
        THEN Rect(Origin, Origin)
        ELSE Rect(new_pos, Minus(ElementMin(lhs_end, rhs_end), new_pos))

Within(p, rect) ==
  /\ rect.pos.x <= p.x /\ p.x < rect.pos.x + rect.size.x
  /\ rect.pos.y <= p.y /\ p.y < rect.pos.y + rect.size.y

ScreenSize == Vec(ScreenWidth, ScreenHeight)
ScreenArea == Rect(Origin, ScreenSize)
Pixels == [x: 0..(ScreenWidth - 1), y: 0..(ScreenHeight - 1)]

\* The layers in the order of their creation. The console's has the same window
\* as the desktop's.
Desktop == 1
ConsoleLayer == 2
MainLayer == 3
MouseLayer == 4
Layer == {Desktop, ConsoleLayer, MainLayer, MouseLayer}

IsDraggable(id) == id = MainLayer

\* Size of the layer's window; of the cursor there is a row of two pixels.
Size(id) ==
  IF id = MainLayer THEN Vec(MainWidth, MainHeight)
  ELSE IF id = MouseLayer THEN Vec(2, 1)
  ELSE ScreenSize

Transparent(id) == id = MouseLayer

\* Color of a pixel of the layer's window.
At(id, p, c) ==
  IF id = MainLayer THEN <<"main_window", c>>
  ELSE IF id # MouseLayer THEN <<"desktop", 0>>
  ELSE IF p.x = 0 THEN <<"cursor", 0>> ELSE <<"transparent", 0>>

\* The window's shadow buffer.
Window(id, c) == [p \in [x: 0..(Size(id).x - 1), y: 0..(Size(id).y - 1)] |-> At(id, p, c)]

WindowArea(id, at) == Rect(at[id], Size(id))

-----------------------------------------------------------------------------
(* Drawing. A buffer, the positions and what main_window shows are passed  *)
(* on, since a call first changes one and then draws.                      *)

\* FrameBuffer::Copy to place dst_pos of dst, from area of src, which has the given
\* size.
Copy(dst, dst_pos, src, src_size, area) ==
  LET shift == Minus(dst_pos, area.pos)
      copy_area == Intersection(Intersection(ScreenArea, Rect(shift, src_size)),
                                Rect(dst_pos, area.size))
  IN  [p \in Pixels |-> IF Within(p, copy_area) THEN src[Minus(p, shift)] ELSE dst[p]]

\* Window::DrawTo. A window with a transparent color does not mind the area.
DrawTo(buffer, id, area, at, c) ==
  LET window == Window(id, c)
      visible == Intersection(area, WindowArea(id, at))
  IN  IF Transparent(id)
        THEN [p \in Pixels |->
               IF /\ Within(p, WindowArea(id, at))
                  /\ window[Minus(p, at[id])][1] # "transparent"
                 THEN window[Minus(p, at[id])] ELSE buffer[p]]
        ELSE Copy(buffer, visible.pos, window, Size(id), Rect(Minus(visible.pos, at[id]), visible.size))

\* Both buffers, [back, screen], after the layers have been drawn on the back
\* buffer, from the lowest on, and the area has been copied to the screen.
DrawLayers(buffers, layers, area, at, c) ==
  LET drawn[n \in 0..Len(layers)] ==
        IF n = 0 THEN buffers.back ELSE DrawTo(drawn[n - 1], layers[n], area, at, c)
      back == drawn[Len(layers)]
  IN  [back |-> back, screen |-> Copy(buffers.screen, area.pos, back, ScreenSize, area)]

\* LayerManager::Draw of an area.
DrawArea(buffers, stack, area, at, c) == DrawLayers(buffers, stack, area, at, c)

\* LayerManager::Draw of a layer: from it upwards, in the area of its window. For a
\* layer not shown the area is what the variable happens to hold.
DrawLayer(buffers, stack, id, area, at, c) ==
  LET k == SelectInSeq(stack, LAMBDA l : l = id)
  IN  IF k # 0 THEN DrawLayers(buffers, SubSeq(stack, k, Len(stack)), WindowArea(id, at), at, c)
      ELSE DrawLayers(buffers, <<>>, area, at, c)

Buffers == [back |-> back_buffer, screen |-> screen]

SetBuffers(buffers) == back_buffer' = buffers.back /\ screen' = buffers.screen

\* The place that the layer left is not drawn again.
Moved_Mutant(buffers, at, id, to, area) ==
  DrawLayer(buffers, layer_stack, id, area, [at EXCEPT ![id] = to], count)

\* LayerManager::Move: the buffers after a layer has moved there.
Moved(buffers, at, id, to, area) ==
  LET now == [at EXCEPT ![id] = to]
      left == DrawArea(buffers, layer_stack, WindowArea(id, at), now, count)
  IN  DrawLayer(left, layer_stack, id, area, now, count)

-----------------------------------------------------------------------------
(* The start-up, up to the event loop.                                     *)

Topmost == 2147483647

\* LayerManager::UpDown. Height 0 is the first place of the stack.
UpDown(stack, id, new_height) ==
  LET old == SelectInSeq(stack, LAMBDA l : l = id)
      height == IF new_height > Len(stack) THEN Len(stack) ELSE new_height
      new == IF height = Len(stack) THEN height - 1 ELSE height
  IN  CASE new_height < 0 /\ old = 0 -> stack
        [] new_height < 0 /\ old # 0 -> RemoveAt(stack, old)
        [] new_height >= 0 /\ old = 0 -> InsertAt(stack, height + 1, id)
        [] OTHER -> InsertAt(RemoveAt(stack, old), new + 1, id)

Init ==
  /\ start = "layers"
  /\ layer_stack = <<>>
  /\ pos = [id \in Layer |-> Origin]
  /\ count = 0
  /\ back_buffer = [p \in Pixels |-> <<"black", 0>>]
  /\ screen = [p \in Pixels |-> <<"boot", 0>>]
  /\ position = Origin /\ previous_pressed = FALSE /\ drag_layer_id = 0

InitializeLayer ==
  /\ start = "layers" /\ start' = "window"
  /\ layer_stack' = UpDown(UpDown(layer_stack, Desktop, 0), ConsoleLayer, 1)
  /\ UNCHANGED <<pos, count, back_buffer, screen, mouse>>

InitializeMainWindow ==
  /\ start = "window" /\ start' = "mouse"
  /\ pos' = [pos EXCEPT ![MainLayer] = Vec(MainX, MainY)]
  /\ layer_stack' = UpDown(layer_stack, MainLayer, Topmost)
  /\ UNCHANGED <<count, back_buffer, screen, mouse>>

\* The mouse is set in its place before it is shown: what area is copied to the
\* screen is left to chance. Of any area it is the part on the screen; one of a
\* negative width, which memcpy would take for a large one, is left out.
InitializeMouse ==
  /\ start = "mouse" /\ start' = "draw"
  /\ position' = Vec(MouseX, MouseY)
  /\ pos' = [pos EXCEPT ![MouseLayer] = position']
  /\ \E p \in Pixels, s \in [x: 0..ScreenWidth, y: 0..ScreenHeight] :
       SetBuffers(Moved(Buffers, pos, MouseLayer, position', Rect(p, s)))
  /\ layer_stack' = UpDown(layer_stack, MouseLayer, Topmost)
  /\ UNCHANGED <<count, previous_pressed, drag_layer_id>>

DrawScreen ==
  /\ start = "draw" /\ start' = "done"
  /\ SetBuffers(DrawArea(Buffers, layer_stack, ScreenArea, pos, count))
  /\ UNCHANGED <<layer_stack, pos, count, mouse>>

-----------------------------------------------------------------------------
(* The event loop.                                                         *)

\* One turn of the loop counts and shows the count. (It alternates.)
CountUp ==
  /\ start = "done"
  /\ count' = 1 - count
  /\ SetBuffers(DrawLayer(Buffers, layer_stack, MainLayer, ScreenArea, pos, count'))
  /\ UNCHANGED <<start, layer_stack, pos, mouse>>

\* Console::PutString. It writes to a window that no layer has.
PutString ==
  /\ start = "done"
  /\ SetBuffers(DrawLayer(Buffers, layer_stack, ConsoleLayer, ScreenArea, pos, count))
  /\ UNCHANGED <<start, layer_stack, pos, count, mouse>>

\* FindLayerByPosition: the topmost layer at p but for the excluded one, 0 if none.
FindLayerByPosition(p, exclude_id) ==
  LET found == SelectLastInSeq(layer_stack,
                 LAMBDA id : id # exclude_id /\ Within(p, WindowArea(id, pos)))
  IN  IF found = 0 THEN 0 ELSE layer_stack[found]

\* The movement is taken from the report, not from where the mouse went.
NewPosition_Mutant(displacement) ==
  LET newpos == Plus(position, displacement)
  IN  [pos |-> ElementMax(ElementMin(newpos, Minus(ScreenSize, Vec(1, 1))), Origin),
       diff |-> displacement]

\* Where a report moves the mouse, which stays on the screen, and how far that is.
NewPosition(displacement) ==
  LET newpos == ElementMin(Plus(position, displacement), Plus(ScreenSize, Vec(-1, -1)))
      now == ElementMax(newpos, Origin)
  IN  [pos |-> now, diff |-> Minus(now, position)]

\* A drag does not end with the button.
Dragged_Mutant(pressed, p) ==
  IF ~previous_pressed /\ pressed
    THEN LET found == FindLayerByPosition(p, MouseLayer)
         IN  IF found # 0 /\ IsDraggable(found) THEN found ELSE drag_layer_id
    ELSE drag_layer_id

\* drag_layer_id after a report: what is under the mouse when the button goes
\* down, nothing when it is let go.
Dragged(pressed, p) ==
  CASE ~previous_pressed /\ pressed ->
         LET found == FindLayerByPosition(p, MouseLayer)
         IN  IF found # 0 /\ IsDraggable(found) THEN found ELSE drag_layer_id
    [] previous_pressed /\ ~pressed -> 0
    [] OTHER -> drag_layer_id

\* Mouse::OnInterrupt.
OnInterrupt(pressed, displacement) ==
  /\ start = "done"
  /\ LET new == NewPosition(displacement)
         moved == Moved(Buffers, pos, MouseLayer, new.pos, ScreenArea)
         at == [pos EXCEPT ![MouseLayer] = new.pos]
         drag == drag_layer_id
     IN  /\ position' = new.pos
         /\ IF previous_pressed /\ pressed /\ drag > 0
              THEN LET to == Plus(pos[drag], new.diff) IN
                   /\ pos' = [at EXCEPT ![drag] = to]
                   /\ SetBuffers(Moved(moved, at, drag, to, ScreenArea))
              ELSE pos' = at /\ SetBuffers(moved)
         /\ drag_layer_id' = Dragged(pressed, new.pos)
  /\ previous_pressed' = pressed
  /\ UNCHANGED <<start, layer_stack, count>>

Displacements == [x: -MaxDisplacement..MaxDisplacement, y: -MaxDisplacement..MaxDisplacement]

Next ==
  \/ InitializeLayer \/ InitializeMainWindow \/ InitializeMouse \/ DrawScreen
  \/ CountUp \/ PutString
  \/ \E pressed \in BOOLEAN, displacement \in Displacements : OnInterrupt(pressed, displacement)

Spec == Init /\ [][Next]_vars

-----------------------------------------------------------------------------
(* Properties.                                                             *)

\* Color of a pixel of the screen if everything is drawn from scratch: that of the
\* topmost window that has the pixel and is not transparent there.
Composed(p) ==
  LET Shows(id) == /\ Within(p, WindowArea(id, pos))
                   /\ At(id, Minus(p, pos[id]), count)[1] # "transparent"
      top == layer_stack[SelectLastInSeq(layer_stack, Shows)]
  IN  At(top, Minus(p, pos[top]), count)

\* Although each call draws again only the areas it thinks it has touched, and over
\* what the back buffer holds from earlier calls, the screen shows the layers as they
\* are after every call, from the first full drawing on (layer.hpp:95-102: Move and
\* MoveRelative draw again): no trace of the mouse or of a window is left behind.
ScreenShowsLayers == start = "done" => \A p \in Pixels : screen[p] = Composed(p)

\* While a window is dragged the button is down and the mouse is on the window, at
\* the edges of the screen too; by the next property, on the same point of it.
DragHoldsWindow ==
  drag_layer_id # 0 =>
    /\ previous_pressed
    /\ IsDraggable(drag_layer_id)
    /\ Within(position, WindowArea(drag_layer_id, pos))

\* A window moves only while it was dragged before, by as much as the mouse moves.
WindowsMoveWithMouse ==
  [][start = "done" /\ pos'[MainLayer] # pos[MainLayer] =>
       /\ drag_layer_id = MainLayer
       /\ Minus(pos'[MainLayer], pos[MainLayer]) = Minus(position', position)]_vars

=============================================================================
