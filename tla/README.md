# Models and proofs for the Wise SDK

TLA+ specifications of the concurrent core of Senscomm's SDK for the SCM2010:
the parts where tasks, interrupt handlers and hardware share state. The modules
are checked with TLC on small instances; the most important safety properties
are proved with TLAPS for every value of the constants.

## 1. Inventory

The SDK runs FreeRTOS on RISC-V cores. One hart runs tasks and, in between,
interrupt handlers that do not nest (`hal/soc/scm2010/plic.c`, the comment above
`mext_interrupt`). `local_irq_save`/`local_irq_restore` make a critical section.
So the granularity of all models is the same: an interrupt handler is one step,
a critical section is one step, and other task code can be interrupted, by
handlers and by other tasks, wherever the shared state is touched.

| component | state | operations | talks to | hard behaviour |
|---|---|---|---|---|
| memory slabs, `kernel/mem_slab.c` | free list, counters, one-slot wait queue | init, deinit, alloc (with wait), free (with hand-over) | FreeRTOS queue; used by I2S | wait decided and begun in two steps; block in flight through the queue |
| I2S block queue, `i2s-python.c` | array, head, tail | put, get, empty | both streams | wrap, full/empty |
| I2S receive stream, `i2s-python.c`, `i2s-dev.c`, `api/scm_i2s.c` | state, current block, queue, semaphore, slab, channel | configure, triggers, read, DMA callback | slab, ring, DMA | callback against triggers and readers; failure in the middle of a start; overrun |
| I2S transmit stream, same files | the same, drain and last-block flags | configure, triggers, write, DMA callback | slab, ring, DMA | delayed start; drain against write; underrun |
| DMA driver, `dma-scm2010.c` | busy, aborted and keep bits, handlers, status register | alloc, start, reload, release, abort, interrupt | SPI, I2C, UART, I2S, copies | shared status register; late and spurious interrupts of aborted channels; channel numbers that go stale |
| interrupt dispatch, `plic.c` (and, with the same code, `plic-sw.c`) | chain of handlers per line, enable bits | request, free, dispatch | all drivers | interrupt between the steps of request and free; shared lines |
| task watchdog, `wise_task_wdt.c` | entries, window end, semaphore, thread | init, add, delete, reset, thread loop | hardware watchdog, clock | wrapping clock; tasks that come and go; hang against false alarm |
| SPI, `api/scm_spi.c`, `spi-atcspi.c` | `sync` and semaphore; `dev_busy`, ready flags, channels | transfers of master and slave, reset, cancel, interrupt | DMA, application callback | time-out against completion; second call during an asynchronous transfer; half of the channels missing |
| UART, `api/scm_uart.c`, `serial-atcuart.c` | per direction a lock, a semaphore, `sync`; offsets or channels, interrupt enable register | init, deinit, tx, rx, their asynchronous forms, reset, interrupts | DMA, application callback | two directions share a register and a reset; time-out against completion; line errors |
| I2C driver | transfer control, DMA channel | transfer, reset, interrupt | DMA, plic | see section 8 |
| event loop, `api/wise/event_loop.c` | flag, queue of 16 events, thread, callback | init, deinit, set_cb, send, thread | Wi-Fi API | order of set-up and tear-down against senders; failure half-way |
| two-core handshake, `sync.c` | flags, semaphore | request, wait, resume | flash driver | everyone waiting on everyone |
| firmware update, `mcuboot_agent.c`, `flash_map_backend.c`, `boot_set_pending_multi` | write buffer, offsets; slot and its trailer in flash | download, buffered sector writes, trailer, set pending, reset | flash, server, boot loader | reset between two flash operations; broken download; a slot that is not empty |
| boot loader, MCUboot's `loader.c`, `swap_scratch.c`, `swap_misc.c`, `bootutil_public.c` on `flash_map_backend.c` | two slots and a scratch area, each with a trailer | choose a swap, validate, swap sector by sector, resume, revert, confirm | flash, agent | reset at any write, also of the resumption; the trailer lies in a sector that is itself swapped |
| power management, `pm.c` | vetoes, wake-up sources | sleep, wake up | all drivers | veto against sleep decision |
| VFS message queues, heap, SDIO, WLAN, Wi-Fi API, CLI | | | | see section 8 |

Left aside as third-party code: FreeRTOS and its CMSIS layer, hostap, net80211,
lwip, mbedtls, nimble, tinyusb, spiffs, the cloud agents under `app/`. MCUboot is
third-party code too, but what the SDK's flash layer does under it decides
whether an update survives a reset, so its swap is modelled.

What makes the components correct: a resource (block, permit, place, channel,
handler) has exactly one owner at any time and is never lost; an assertion of
the code never fires; a completed operation is reported, once, to its owner; a
stop, a drain, a wait and a release end; a device that is reset finds an image
to start; a watchdog triggers when, and only when,
it should. The hazards, with the line where each one bites, are in
`PROJECT.json`.

## 2. Plan

In order of importance; all of it is done.

1. `MemSlab` implementing `Pool`: the allocator under the streams.
2. `RingBuf` implementing `Fifo`: the queue of the streams.
3. `I2sRx`, `I2sTx`: the streams, on the abstractions of 1 and 2, with every use
   an application can make of them in one run each.
4. `Dma`: channel ownership across drivers.
5. `Plic`: handlers and lines.
6. `TaskWdt`: the task watchdog with its clock.
7. `Spi`, `Uart`: transfers, time-out and reset against the interrupt.
8. `EventLoop`: set-up and tear-down against senders. `Mcuboot` and, on it,
   `OtaAgent`: swap and update with a reset between any two steps.
9. `BlockProofs`: all safety properties of the slab and of the ring buffer, the
   two refinements included.
10. `I2sRxProofs`, `I2sTxProofs`: what the streams promise to the slab, and the
    exactness of their semaphores.
11. `DmaProofs`, `SpiProofs`, `OtaAgentProofs`: all the safety properties of
    these, the boot loader's included.
12. `WiseProofs`: the event loop and the task watchdog. `UartPlicProofs`: the UART
    driver and the interrupt dispatch.

Abstract specifications: `Pool` for the slab and `Fifo` for the ring buffer, on
which the streams are built. Worth adding: a lock per channel for `Dma`; the
operations `enable_irq` and `disable_irq` in `Plic`, should a second driver use
them.

## 3. Modules and code

Names of actions follow the functions of the code; a function that can be
interrupted is split where it can be, and `PROJECT.json` gives the lines of each
definition. Definitions whose comment starts with "Mutant" are wrong on purpose:
they are used to see that each property can fail.

**MemSlab.** `free_list` is the linked list, `wait_q` the message queue,
`held` the blocks outside. `pc` says where a client is in `mem_slab_alloc`:
`gap` is the point between `local_irq_restore` and `osMessageQueueGet`. The
queue is modelled from FreeRTOS's contract: a send stores the message and makes
one waiting receiver ready, which takes the message when it runs, or finds it
gone. Addresses are block numbers; alignment errors of `create_free_list` are
left out. `mem_slab_deinit` is called while nobody is inside the queue, since
deleting such a queue is undefined.

`Pool` is what remains of the slab for a client: the blocks in use, with the two
counters. A block that lies in the wait queue is in use (`InUse`), so a hand-over
is no step of the pool at all. `I2sRx` and `I2sTx` use the slab as such a pool,
their variable `lent`.

**RingBuf / Fifo.** `RingBuf` has the array and the two indices; `Contents` is
the refinement mapping to `Fifo`'s sequence.

**Uses.** The modules of the drivers, the event loop and the update agent have
a constant `Uses`, a set of uses, and a variable `use` that is chosen from it
once, in the initial state. A use is a set of oddities: things that some
systems do to the component and others do not (a second task, a time-out that
is too short, DMA channels that run out, a reset at a bad moment). Every action
that only an oddity allows has it in its guard. A property that the code keeps
in every use is stated plainly; one that it keeps in some uses only names the
largest ones. So one run checks a component with all its properties, what is
left out is part of the property and not of the model, and section 5 lists the
uses in which each property fails. In an MC module `AllUses` holds the largest
uses that the properties speak of: a use allows all that a smaller one does.

**I2sRx, I2sTx.** The stream's fields, the blocks lent by the slab, and the DMA
channel as one of none, running, done, failed (and held: a completion was
ignored and nobody will start the channel again). A task is between two calls
or at one of the points where it can be interrupted: in `START` between the
start of the DMA and the assignment of the state, in a read between the test of
the state, the semaphore and the queue, in a write between the same. The slab,
the ring buffer and the channel are used through the guarantees proved or
checked for them elsewhere: a set of blocks, a bounded sequence, a channel of
one's own. `scm_i2s_configure` and `scm_i2s_deinit` are guarded by the
assertions of `mem_slab_deinit`; where an assertion would stop the program the
model has no step, and an active stream is not torn down (section 5). In
`I2sTx`, `late` is an abort that the controller has still to report after
`stream_disable`; `callback_aborted` is what the callback does with it.

**Dma.** The three bit sets and the handlers of the driver, the enable bits,
masks and status register of the controller, and for each user the channel
number it remembers. Users stand for the drivers by kind: without handler (SPI,
I2C), with handler (UART), with a kept channel (I2S) and memory copies. What
the handlers do to the channel (reload, stop, forget) is part of
`scm2010_dmac_isr`, as in the code. The controller is external: transfers end,
fail, and an abort is reported some time later, sometimes with a spurious
completion as the comment in the handler says. Two switches bound what the
environment does. `PromptAborts`: an abort is reported before the channel is
given out again (a few cycles in hardware). `CalmResets`: nothing gets in
between the read of a channel number by a reset and the end of the abort;
section 5 says what happens without it. Masked events are taken not to
be latched in the status register.

**Plic.** A chain of handlers per line and the enable bits. `request_irq` is
two steps (link, enable) and `free_irq` three (disable, search, unlink), with
interrupts in between; calls do not overlap, since devices are probed and shut
down one at a time. The search is translated as it is written, and so never
gets past the first entry.

**TaskWdt.** The clock counts modulo `Ticks` (2^32 in the code) and the time
that is left is read as a signed number. `silent` counts how long a subscribed
task has not reset; it is there for the properties only. The thread has the
highest priority, so time does not pass while it is ready; its loop is the
steps wake, early, end and alarm.

**Spi.** `bus` is the controller, `armed` whether its end-of-transfer interrupt
is enabled, `held` the DMA channels busy for this driver, `dma_ch` the two
numbers it remembers; `owner` and `due` (whose transfer is on the bus, and
whether the application has still to be told of one) are there for the
properties. A call is split at the assignment of `data->sync`, at the test of
`dev_busy`, after the configuration (which enables the interrupt), after the DMA
channels, after `dev_busy = 1`, at the start of the bus, and between time-out and
reset. A request says which directions have data and whether it begins with a
command: a command without data runs the bus with no channel, and a transfer in
both directions can fail after the first channel was started, for want of a
second or because the receive buffer is out of the DMA's reach. Of the lengths
only "none or some" matters; a length above the controller's limit is refused
before anything is changed, like a wrong role, and a NULL buffer with a length is
not passed.

**Uart.** For each direction the lock `prot`, the semaphore `done` and `sync`.
Without DMA `left` says whether the driver has data to move and `owner` whose;
the interrupt enable register is a variable of its own, because
`atcuart_rx_enable` and, in a reset, `atcuart_tx_enable` read and write it with
interrupts on: `v` is the value a task has read. With DMA `dma_ch` is the number
on record and `work` the channels that run: `dma_copy_hw` stores the number in one
step and starts the channel in another. A reset is eleven steps: two reads and
two writes of the register, the record, and for each direction the look at the channel, its
abort and the dropping of its number. Whatever else the application does with the
port can come between any two of these. The number of bytes received is not
modelled, and so an interrupt that only moves or discards some is no step.

**EventLoop.** The four variables of the loop and the queues and threads that
exist, by handle, so that a handle can outlive its object and be given out
again. Each access to a variable is a step, except that a callback and its
context are one value, which may be NULL: an application that handles no events.
`asked` is the callback the application set last. One event, `mark`, is followed
from its acceptance to the callback.

**Mcuboot.** What the flash holds and what the boot loader does with it. The two
slots are functions from sectors to what they hold, the scratch area is one
sector, and the trailers of the primary slot and of the scratch area are records
(type and size of the swap, `copy_done`, `image_ok`, magic number, and the status
bytes as the pair that `swap_read_status_bytes` makes of them); of the secondary
slot's trailer only the magic number is read. A sector holds a part of one of the
images, and a slot validates if all sectors of its image are there: the hash of
`boot_image_check`, by what it does. `pc` walks through `context_boot_go`: the
status of an unfinished swap is read, or a type of swap chosen from the tables
and the image validated; then each sector goes through the three states of
`boot_swap_sectors`, every erasure, copy, trailer field and status byte a step of
its own. A reset throws the loader back to `"boot"` with nothing but the flash. The
use `"torn"` adds a reset inside `aligned_write`. With one scratch sector a swap
moves one sector at a time; the chip's three sectors make larger moves, with the
same three states for each.

**OtaAgent.** The agent, on the flash of `Mcuboot`: an extension of that module,
so that each run alternates downloads with what the boot loader makes of them. A
write of a sector is an erasure and a programming, with a reset or a failure
possible at each; one beyond the slot is refused, as by `flash_area_write`.
Lengths are counted in halves of a sector, which is what one `recv` brings at
most; so the write buffer is filled, flushed and left half full. The file is an
image that will validate, one that only has the header of an image, or anything
else; it may be too long for the slot, come in part or not at all, or without a
length, in which case the code receives nothing and goes on.

## 4. Runs

| run | states | what it shows |
|---|---|---|
| `mem_slab` | 843 | the slab is a pool, blocks conserved, counters exact, assertions hold, hand-over reaches a client |
| `ring_buf` | 595 | the ring buffer is a FIFO |
| `i2s_rx` | 1 168 936 | permits in every use, rest after errors, ownership without STOP, no silent stop, STOPPING ends |
| `i2s_tx` | 145 334 | semaphore exact and DRAIN complete in every use; ownership, no silent stop and the end of DRAIN in the uses named |
| `dma` | about 640 000 | channels have one user, completions go to it, reload allowed |
| `dma_report` | violation | a release clears another channel's completion |
| `plic` | 405 | lines served, handlers kept and forgotten in time (drivers alone on their line leave) |
| `task_wdt` | 24 080 | alarm only after a timeout's silence, hang found in two windows, over clock wraps, with a poll that does not divide the timeout |
| `spi` | 103 182 | WISE_OK after one's own transfer, `dev_busy` and channels follow the bus, asynchronous transfers are reported |
| `uart` | 9 050 | in the uses named, WISE_OK after one's own transfer, a lock means an idle direction, locks come back |
| `event_loop` | 89 168 | no stale handle, all or nothing of the loop, accepted events are delivered |
| `ota` | 622 211 | pending means complete, the agent's reset installs, there is always an image to start, a repeated update succeeds |

Deadlock is checked except in `i2s_rx`, `i2s_tx` and `uart`. A failed assertion
of the code stops the program in the first two; in `uart`, tasks that wait for
a lock that was lost (section 5) may all be waiting.

Bounds. Two blocks and three clients let two clients wait while a third frees,
with one waiting for ever. A ring of four slots wraps several times with every
fill level. Four blocks against a queue of two let the queue fill, a reader (or
the writer) hold a block, and the slab run empty, with two readers. Three DMA
channels for five users make channels scarce and pass each from kind to kind.
Four drivers on three lines have a shared line and two private ones. A clock of
sixteen ticks with a window of five wraps at the fourth; windows of two tasks
show all orders of resets. Two tasks are enough for SPI and UART: one waits or
has timed out while the other calls; SPI's three channels are the two of a
transfer and one that may have leaked. The event loop has three tasks (one sets
up or tears down, two send), two handles, so that a new queue can have the
number of a deleted one or not, and two places instead of sixteen. A slot has
three sectors (the first, which is looked at, the last, which holds the trailer,
and one in between), and images of two and of three sectors are swapped with each
other, so that the sector of the trailer is moved or not. At most `MaxFaults` = 2
faults: a swap can be cut off, and its resumption too; the proofs are for any
number. The only
counter that could grow (`silent`) is bounded by the property itself. With the
code's numbers (poll 1 s, slack 10 ms, timeout in seconds) `HungTaskFound`
reads: a hung task is reported within exactly twice the timeout.

Fairness. `MemSlab`: a ready task runs, the tick ends a timed wait, and blocks
are freed in the end; nobody is obliged to allocate. `I2sRx`, `I2sTx`, `Spi`,
`Uart`: the controller finishes a transfer, a raised interrupt is taken, a task
goes on with the call it is in; no trigger, call, read or write need ever come.
`Dma`: the same, and SPI releases its channel at the end of a bus transfer.
`Plic`: an enabled, asserted line interrupts, and a driver goes on with the call
it is in. `EventLoop`: the tasks finish their calls and the loop's thread runs.
`OtaAgent`: the agent and the boot loader go on, and somebody tries again after a
failure. All of
it is weak fairness and follows from a preemptive scheduler, from interrupts
that are on outside critical sections, and from the clocked hardware; the last
is an assumption on the operator. For the users of the DMA, that a transfer which
ends is also reported is an assumption that a shared controller does not always
keep (run `dma_report`); for an SPI slave, that the transfer ends is one on the
master. The one strong fairness is that of the lock of
a UART direction: a FreeRTOS semaphore serves waiting tasks of one priority in
turn.

## 5. Other behaviour that the models show to be wrong

Not kept as runs. In the modules with uses, each line is the property without
its restriction on `use`, checked with `Uses` set to the use given; in the
others, the change of one constant in the named configuration. TLC, with that
property alone and without the check for deadlock, then reports it as violated.

| module | use or change | property | what happens |
|---|---|---|---|
| `MemSlab` | (none needed) | a waiting client ends its wait when a block is free | a block freed between the look at the list and the wait finds no waiter and goes to the list; the caller then waits, for ever with `osWaitForever` (`mem_slab.c:204`) |
| `I2sRx` | stop | `BlocksOwned` | the block that completes in STOPPING is put in the queue and also freed, so its reader gets a block the slab gives out again (`i2s-python.c:1048`) |
| `I2sRx` | short | `AtRest` | `rx_stream_start` returns `-EBUSY` with `mem_block` set; the assertion of the next START fails (`i2s-python.c:1168`) |
| `I2sRx` | slow | `RunningFed` | a block complete before START sets RUNNING is ignored, and nothing is received any more (`i2s-python.c:995`) |
| `I2sTx` | race | `DrainEnds`, `RunningFed` | a DRAIN between a writer's `queue_put` and its look at the state leaves the stream STOPPING (`i2s-python.c:695`) |
| `I2sTx` | short | `BlocksOwned` | a start that finds no channel loses its block (`i2s-python.c:1199`) |
| `I2sTx` | late | `BlocksOwned`, `RunningFed`, `DrainEnds` | an abort that is reported late meets the assertion on `mem_block`, or frees the block of the next start and returns, with that block still being sent (`i2s-python.c:1068`) |
| `I2sTx`, `I2sRx` | (no step in the models) | | `scm_i2s_deinit` does not look at the `-EINPROGRESS` of an active stream: with a block in use the assertion of `mem_slab_deinit` stops the program, with none (a transmit stream that waits for data) the slab is freed and the driver keeps the pointer (`scm_i2s.c:91`) |
| `MCDma` | `CalmResets = FALSE` | `ChannelsAccounted`, `ReloadAllowed` | a reset that is interrupted between its read of the channel number and the abort frees the channel of another driver (`dma-scm2010.c:595`) |
| `MCDma` | `Faulty` with a UART, SPI or copying user | `ChannelsAccounted` | after a bus error the interrupt marks the channel idle, but only the I2S handlers forget its number: a later reset aborts, or a release frees, the channel of its next user (`dma-scm2010.c:287`) |
| `MCPlic` | `Leavers <- SharerLeaves` | `StillHandled` | freeing the first handler of a shared line drops the chain and leaves the line disabled (`plic.c:150`) |
| `MCPlic` | the same | a call of `free_irq` returns | the search for a handler that is not the first of its line does not end: `at` stays `"spin"` (`plic.c:141`) |
| `MCTaskWdt` | `Timeout = 8` | `AlarmJustified` | a timeout of half the clock's range or more, 36 minutes in the code, triggers at the first subscription (`wise_task_wdt.c:138`) |
| `Spi` | timeout | `BusyExact` | the reset after a time-out leaves `dev_busy` set: all later transfers are refused (`spi-atcspi.c:690`) |
| `Spi` | timeout | `OkMeansDone` | a transfer that ends between the time-out and the reset leaves a permit, and the next call returns at once (`scm_spi.c:186`) |
| `Spi` | overlap | `Notified`, `OkMeansDone` | a refused call has already overwritten `sync`: the report of the transfer under way goes the wrong way (`scm_spi.c:211`) |
| `Spi` | short, or address | `ChannelsHeld`, `BusyExact` | with a channel for transmission only, or a receive buffer that the DMA does not reach, the call fails; the channel keeps running and the ready flags stay set (`spi-atcspi.c:801`, `:773`) |
| `Spi` | eager | `BusyExact`, `ChannelsHeld`, `Notified` | the interrupt at the end of a transfer is enabled before `dev_busy` is set: a master that clocks in between ends the transfer, the handler clears `dev_busy`, and the call then sets it for ever (`spi-atcspi.c:526`, `:1206`, `:1030`) |
| `Spi` | cancel | `BusyExact` | the ready flags stay set and suppress the report that a master wants data (`spi-atcspi.c:1057`) |
| `Spi` | race | `ChannelsHeld`, `OkMeansDone` | two tasks pass the test of `dev_busy` (`spi-atcspi.c:838`) |
| `Uart` | timeout, late | `OkMeansDone`, `LockMeansIdle` | as for SPI, a permit is left over, with or without DMA (`scm_uart.c:248`) |
| `Uart` | duplex, no DMA | all three | `atcuart_rx_enable` writes back the enable register it read before an interrupt changed it: a transmission ends twice, or never (`serial-atcuart.c:216`) |
| `Uart` | reset, no DMA | all three | the same in `atcuart_reset`: a transmission that ends between the read and the write of the register is enabled again, and ends twice (`serial-atcuart.c:1147`) |
| `Uart` | dma, duplex, timeout | all three | the reset after a time-out of one direction ends the other without a report; if it comes between the store of the other's channel number and its start, a channel runs that nobody knows of (`dma-scm2010.c:479`, `:528`) |
| `Uart` | dma, timeout with error or reset; dma, error, reset, leave | `OkMeansDone`, `LockMeansIdle` | the same for a line error or a reset in that gap: the transfer goes on after its call has timed out and given up the lock, or after the port was closed and opened again |
| `Uart` | error | `LockReturns` | an asynchronous reception that ends with a line error is not reported, and its lock is never returned (`scm_uart.c:106`) |
| `Uart` | reset | `LockReturns` | `scm_uart_reset` does not return the lock of an asynchronous transfer (`scm_uart.c:382`) |
| `EventLoop` | teardown | `NoStaleHandle`, `Delivered` | a sender between its test and its put uses a deleted queue, or a new one with the same handle (`event_loop.c:84`) |
| `EventLoop` | race | `AllOrNothing` | two tasks pass the test of the flag (`event_loop.c:112`) |
| `EventLoop` | nomem | `AllOrNothing`, `NoStaleHandle` | after a failed set-up the flag stays set; the thread handle of an earlier set-up is terminated again (`event_loop.c:118`) |
| `EventLoop` | self | `AllOrNothing` | a callback that calls deinit terminates itself before the flag is cleared (`event_loop.c:138`) |
| `EventLoop` | early | `Delivered` | an event that arrives before the callback is stored is dropped (`event_loop.c:126`) |
| `OtaAgent` | cut | `PendingComplete`, `ExpireInstalls` | a broken connection is no error: the part is marked as pending and the device reset (`mcuboot_agent.c:301`); right after the header, it is what the slot held before |
| `OtaAgent` | nolength | `PendingComplete`, `ExpireInstalls` | `http_file_size` returns -1 and only 0 is an error: nothing is received, and the slot as it was, or with a fragment, is marked as pending (`mcuboot_agent.c:275`) |
| `OtaAgent` | foreign | `PendingComplete`, `ExpireInstalls` | only the magic number of the header is looked at ("TODO: what about mcuboot formatted image, but not ours?", `mcuboot_agent.c:67`) |
| `OtaAgent` | flash | `PendingComplete`, `ExpireInstalls` | the result of `file_close` replaces the error of `file_write` (`mcuboot_agent.c:317`) |
| `OtaAgent` | tiny | `Recovers` | an image shorter than the buffer is judged by what the slot held before it (`mcuboot_agent.c:84`) |
| `OtaAgent` | large | `ExpireInstalls` | an image over the trailer is erased by `boot_set_pending_multi`, whose result is ignored, and the device reset (`mcuboot_agent.c:534`) |
| `Mcuboot` | torn | `Bootable` | `aligned_write` erases the sector and programs it again for each field of a trailer and each status byte; a reset in that window loses the status of the swap, and with sectors of two images in a slot neither validates (`flash_map_backend.c:84`) |

The last line is at odds with MCUboot's design, by which the loader is to "work
properly even when it is reset during the middle of an image swap"
(`mcuboot/docs/design.md:306`): MCUboot writes its status bytes one by one to
erased flash, which the SDK's flash layer turns into a rewrite of the sector.

The boot loader rejects an image that does not validate, so what the agent marks
wrongly costs an erased slot and a reset, not a broken device: that is `Bootable`,
which holds in all these uses but `torn`. An older image that the slot still holds
whole is installed when the agent marks it, after a connection that broke right
after the header or an answer without a length. And a complete download that was
never marked can be started too: if the image that runs was not confirmed, the
next boot takes the secondary slot for the image to revert to, and marks it as
good (`bootutil_public.c:92`). No two devices
of this chip's table share a line, so the two of `Plic` wait for a driver that
does. Apart from these: `wise_task_wdt_delete(NULL)` fails and changes nothing,
where `wise_task_wdt.h` has it unsubscribe the calling task; `spi_notify` passes
its own record instead of the user's context for a master's transfer
(`scm_spi.c:61`); the UART's line error interrupt aborts channel -1 when nothing
is being received (`serial-atcuart.c:546`); `wise_event_loop_set_cb` stores the
callback and then its context, and the loop reads the callback twice, so that an
event in between meets one callback's function with the other's context, or a
NULL that it has just tested (`event_loop.c:47`, `:71`); `flash_area_erase` does
not free its buffer when the length is below a sector
(`flash_map_backend.c:429`); `wise_task_wdt_init` does not look at whether the
semaphore was created, without which the watchdog's thread never blocks
(`wise_task_wdt.c:266`); the number of bytes received is read from the UART's DMA
channel after the interrupt has set it to -1 (`serial-atcuart.c:1186`); the agent's
`fbuf` keeps its value after `free` and is freed again when a later call cannot
allocate `hbuf` (`mcuboot_agent.c:452`).

## 6. Proofs

Eight modules, checked by `tlapm`; three of them hold the proofs of two components
each, which share no state. Each component has an inductive invariant, a lemma per
part of it with one step per action, and the theorems that follow. Every
invariant was checked with TLC on the run's instance before it was proved.

`BlockProofs`, the slab: for every set of clients and every number of blocks,
`TypeOK`, `Conservation`, `UsageExact`, `AllocSane`, `DeinitSafe` and
`NoStrandedBlock` are invariants of `Spec`. The invariant `IInv` is the conjunction of the type
invariant, `Conservation`, `UsageExact`, `NoStrandedBlock` and `Dormant` (a slab
that is not initialised has nothing outside its list). The parts need each
other: that a block taken from the list raises the number of blocks in use by
one is true only because it was in no other place; a hand-over keeps the count
only because the block moves from one counted place to another. `AllocSane` and
`DeinitSafe` follow from it. `SlabImplementsPool` is the refinement: under `IInv`
the block at the head of the list is not in use, a release to the list is the
pool's, a hand-over and its reception change nothing in the pool, and tear-down
finds it empty. `RefusedWhenFull` adds what the pool cannot say, that a client is
made to wait only when all blocks are in use; the streams' error paths (`lent =
Blocks`) rest on it.

`BlockProofs`, the ring buffer: `RingBuf` implements `Fifo` for every length above
one and every set of items. `RingInv` adds to the type invariant that the slots in
use hold items. The refinement is proved action by action, from lemmas on how
`Used` and `Slot` move with the two indices, by extensionality of sequences.

`I2sRxProofs`: `BlockHasPermit`, `AtRest`, `BlocksOwned` and `RunningFed` for
every number of blocks, places and readers. The invariant `RxInv` has the types,
`Channel` (which block and which channel go with each state, and how a START
that has not returned changes that), `BlockHasPermit` and `BlocksOwned`. The
number of readers between the semaphore and the queue is the cardinality of a
set; `GettersStep` says how it moves. `PutElems` and `GetElems` say what
`queue_put` and `queue_get` do to the set of queued blocks and that they keep
them distinct; the proof of `BlocksOwned` is then about sets only.

`I2sTxProofs`: `PlacesExact`, `TypeOK` and `DrainSendsAll` for every queue
length and every use, the racing ones and the late aborts included. That
`sem` stays in its range follows from `PlacesExact`. `DrainSendsAll` needs that
`last_block`, which ends a transmission with blocks left in the queue, is not
set when a draining stream has a transfer; `LastBlock` says how that is kept
across `STOP`, the three ways of starting and the interrupt. `StreamInv` adds
`BlocksOwned`, which is inductive only with `Waiting` (a stream in STARTING, or
about to enter it, has no block that the delayed start would overwrite) and with
`PlacesExact` (a block that is put is never dropped); and, for one task that is
not overtaken, `Fed`, of which `RunningFed` is a part: what START, the delayed
start and the callback have set up at the points where the state does not say so
yet, and that at most one block is queued when the writer looks at a stream that
waits.

`DmaProofs`: `ChannelsAccounted`, `CompleteToOwner` and `ReloadAllowed` for every
number of channels and of users of each kind, under `Quiet`: the two assumptions
of the run (`CalmResets`, `PromptAborts`), and bus errors at I2S channels only,
which the proof turned out to need (section 5). `Places` gives each user its
channel, `Marked` says that the keep bit and the handler of a channel are its
user's, and `Raised` that an interrupt that is pending, or that a running
transfer may still raise, belongs to a user with a handler, or to an aborted
channel that nobody has. That last part is where a released SPI channel that
still runs has to be shown harmless: its completion is masked. `IsrEffect`
reduces the loop of `scm2010_dmac_isr`, with the handlers it calls, to the set
of users whose use of a channel it ends.

`SpiProofs`: `OkMeansDone`, `BusyExact` and `ChannelsHeld` for every number of
tasks and at least two channels. `OneCall` (no racing tasks, no eager master) says
that a call that has passed the test of `dev_busy` still finds the driver free and
`sync` as it set it, at each of the five points up to the start of the bus;
`Awaited` (no overlap, no time-out) who waits for the transfer on the bus, and
that a permit is there only for a call that waits; `Taken` that the channels are
those of the directions with data, from the moment they are taken and not from the
start of the bus. `EnoughChannels` is why a call without competition never finds
half of its channels.

`WiseProofs`, the event loop: `NoStaleHandle` and `AllOrNothing` for every number
of tasks, handles and events. `Phases` ties the point that init or deinit has
reached, down to the single assignments at the end of deinit, to the parts of the
loop that exist, whatever the callback is; `Senders` ties a sender between its
test and its put to the queue that exists.

`WiseProofs`, the watchdog: `HungTaskFound` and `AlarmJustified` for every set of
tasks and every clock, timeout, slack and poll that are `InRange`: the timeout is
longer than the slack and below half of the clock's range, which section 5 shows
to be needed, and so is the poll. `Elapsed`, the age of the window, is computed
from the clock and `expire_tick` modulo `Ticks`; `Wraps` reduces the remainder of
a sum or difference of two times to a case distinction, after which the
arithmetic is linear, and `ExpiredExact` shows that the signed comparison of
`task_wdt` asks just whether `Elapsed` has reached the timeout less the slack.
`Polled` says that the thread looks at a window at multiples of the poll until it
is over, whoever releases the semaphore in between, so that it is `Latest` old at
most. `Ages` relates that to the tasks: one that has reset did so in this window,
one that is due has been silent for all of it, and for no more than one window
before it.

`UartPlicProofs`, the UART: `OkMeansDone` and `LockMeansIdle` for every number of
tasks, in the uses of `Safe`. The semaphore `prot` of a direction is free only when
the driver is at rest and no permit is left; otherwise one call has it, or an
asynchronous transfer that the interrupt will end; a permit in `done` is there only
while the call it belongs to waits. What has to be added is what holds at each of
the eleven points of a reset, for the three kinds of use with DMA and the one
without: which of the two directions has been stopped, whose channel may still
run, and that the copy of the enable register which a task is about to write back
is up to date. That last part is where a duplex use or a reset without DMA would
break the proof, as it does the property; and a channel whose number was dropped
before it was started is where resets and time-outs together would.

`UartPlicProofs`, the dispatch: `StillHandled` for every set of lines and drivers
that are `Alone`: those that call `free_irq` have a line for themselves (section 5
shows what happens to a shared one), while drivers that stay may share. `Linked`
ties the point of `request_irq` or `free_irq` a driver has reached to its place
on the chain, which it has once; `OwnLine` keeps foreign drivers off a chain, so
that what `free_irq` drops is one entry. From the same invariant follow that the
search of `free_irq` finds its handler at the first entry (`NoSpin`) and that one
interrupt serves all devices that assert the line (`ServedAtOnce`), the safety
half of `Served`.

`OtaAgentProofs`: `Bootable`, `PendingComplete` and `ExpireInstalls` for every size
of the slots, every length of the images and any number of resets (`MaxFaults` is
any number). `Bootable` is the result with the longest argument. Its invariant
`LoaderInv` speaks of the flash as much as of `pc`, since after a reset there is
nothing else. `FlashInv` says that either the primary slot holds a whole image, or
the trailer that `swap_status_source` names tells sector, state and size of a swap
under way, and `Moving`, for that sector and state, what each sector of the two
slots and the scratch area holds: behind it the images have changed places, before
it they have not, and of the sector itself a copy of each image is left. `SwapInv`,
`RecordInv` and `SectorInv` tie the loader's own record and its point in
`boot_swap_sectors` to that, also in the steps in which the trailer is in both
areas; `MagicInv` and `QuietInv` say what a boot without an unfinished swap finds.
There is a lemma on the contents for each of the
three states (`MovesAt0`, `Moves01` and so on), and a lemma per action of the
loader. `AgentKeepsLoader` shows that
nothing the agent does, with any file, disturbs a swap that is to be resumed: it
writes only to the secondary slot, and only when there is none. For the other two
theorems `Position` relates what was received, the offset and the buffer to the
sector that is being written; `Download` says what the slot and its trailer hold at
each point; `RoomForTrailer` that an image which leaves room for the trailer never
covers it.

Assumptions: the named `ASSUME`s of the modules, which TLC evaluates in the
runs: a positive number of blocks, a ring longer than one, a finite set of
readers, at least two DMA channels for SPI, `NoBlock`, `NULL` and the like
different from what they stand beside. The uses a theorem is about are those its
property names, and `Quiet` for `Dma`; `InRange` and `Alone` are hypotheses on the
constants, which the constants of the runs satisfy; a behaviour in such a use exists whenever
`Uses` contains one, as in the runs.

## 7. Only model-checked

All liveness properties (`HandedBlockTaken`, `StopEnds`, `DrainEnds`, `Served`,
`Notified`, `LockReturns`, `Delivered`, `Recovers`), since
fairness is outside the prover's reach. Every safety property that a passing run
checks is also a theorem.

## 8. Not modelled

Register layouts, clocks, pins, descriptor contents and audio formats: no
property here depends on them. The numbers of bytes that UART and SPI report.
The console path of the UART driver, which has its own buffers and no locks.
I2C: the handler follows, byte by byte, a controller that the source does not
define. The handshake of the cores: half of it is firmware that is not in the
repository. Power management: register sequences whose effect is that of the
chip. The VFS message queues and the heap: thin layers on FreeRTOS. SDIO and WLAN:
their behaviour is that of hardware FIFOs and firmware which the repository does
not define. Of the boot loader: signatures and encryption, several images, the
other ways to swap, and failures of the flash under the loader, which it answers
with an assertion; of the agent's commands, the one that sets the pending flag by
hand (`do_mcuboot_set_img`). The Wi-Fi API: a front end of the vendored supplicant. Failures to
create operating system objects at start-up, except in the event loop.
`enable_irq` and `disable_irq`, used by the ADC driver on a line of its own. The
third-party code listed in section 1, which is most of the repository, is not
part of this project.
