------------------------------ MODULE MCDevices -------------------------------
(***************************************************************************)
(* The drivers of pins, serial ports and the camera for TLC.  They share   *)
(* no state; a behaviour exercises one of them, in one of these scenarios: *)
(*   irq       GPIO; the thread may not start, a poll keeps its file       *)
(*   delivery  GPIO; a closed event file is gone at once                   *)
(*   failing   PWM; one caller, one channel, every call, any sysfs write   *)
(*             may fail                                                    *)
(*   calm      PWM; two callers, two channels, no write fails, and no      *)
(*             caller uses tkl_pwm_info_set                                *)
(*   i2c       one I2C port, two callers, two devices                      *)
(*   spi       one SPI port, two callers, two configurations               *)
(*   tty       two UART ports of the default build                         *)
(*   udp       the UDP port of the redirecting build                       *)
(*   camera    one camera of up to six buffers                             *)
(* A second has 12 nanoseconds and the duty scale is 4, which keeps the    *)
(* divisions of the PWM driver inexact.                                    *)
(***************************************************************************)
EXTENDS TklGpio, TklPwm, TklI2c, TklSpi, TklUart, TklCameraV4l2

CONSTANTS t1, t2, c1, c2

(* Values of constants for TLC. *)
TwoSpiCfgs == {[mode |-> 0, databits |-> "BIT8", freq_hz |-> 1],
               [mode |-> 3, databits |-> "BIT16", freq_hz |-> 2]}

VARIABLE scenario

ports == <<i2c, spi, uart, camera>>
all == <<scenario, gpio, pwm, ports>>

Delivery == INSTANCE TklGpio WITH ThreadMayFail <- FALSE, PollKeepsFile <- FALSE
FailingPwm == INSTANCE TklPwm WITH Threads <- {t1}, Channels <- {c1}
CalmPwm == INSTANCE TklPwm WITH
    Polarities <- {"normal"}, Frequencies <- {1, 5}, Cycles <- {2},
    InfoSetters <- {}, Failing <- {}, ChannelLists <- {<<c1, c2>>, <<c2, c1>>}
UpdatedPwm == INSTANCE TklPwm WITH Threads <- {t1}, Channels <- {c1},
    Polarities <- {"normal"}, Frequencies <- {1, 5}, Failing <- {}
Udp == INSTANCE TklUart WITH Redirect <- TRUE

DevicesInit ==
    /\ GpioInit /\ PwmInit /\ I2cInit /\ SpiInit /\ UartInit /\ CameraInit
    /\ scenario \in {"irq", "delivery", "failing", "calm", "i2c", "spi", "tty", "udp",
                     "camera"}
    /\ scenario # "calm" => ~hw[c2].exported
    /\ scenario \notin {"calm", "failing"} => ~hw[c1].exported

PinsNext ==
    \/ scenario = "irq" /\ GpioNext /\ UNCHANGED pwm
    \/ scenario = "delivery" /\ Delivery!GpioNext /\ UNCHANGED pwm
    \/ scenario = "failing" /\ FailingPwm!PwmNext /\ UNCHANGED gpio
    \/ scenario = "calm" /\ CalmPwm!PwmNext /\ UNCHANGED gpio

PortsNext ==
    \/ scenario = "i2c" /\ I2cNext /\ UNCHANGED <<spi, uart, camera>>
    \/ scenario = "spi" /\ SpiNext /\ UNCHANGED <<i2c, uart, camera>>
    \/ scenario = "tty" /\ UartNext /\ UNCHANGED <<i2c, spi, camera>>
    \/ scenario = "udp" /\ Udp!UartNext /\ UNCHANGED <<i2c, spi, camera>>
    \/ scenario = "camera" /\ CameraNext /\ UNCHANGED <<i2c, spi, uart>>

DevicesNext ==
    \/ PinsNext /\ UNCHANGED <<scenario, ports>>
    \/ PortsNext /\ UNCHANGED <<scenario, gpio, pwm>>

OfDelivery == scenario = "delivery" /\ UNCHANGED <<scenario, pwm, ports>>
OfTty == scenario = "tty" /\ UNCHANGED <<scenario, gpio, pwm, i2c, spi, camera>>

(* The interrupt thread and the receive thread are scheduled, and a        *)
(* tkl_uart_deinit that has begun is completed; nobody has to call the     *)
(* drivers.                                                                *)
DevicesSpec ==
    /\ DevicesInit /\ [][DevicesNext]_all
    /\ WF_all(Delivery!gpio_irq_thread /\ OfDelivery)
    /\ WF_all(OfTty /\ Thread(0)) /\ WF_all(OfTty /\ DeinitJoin(0))

(* One caller that uses tkl_pwm_info_set. *)
UpdateSpec ==
    /\ scenario = "update" /\ PwmInit
    /\ GpioInit /\ I2cInit /\ SpiInit /\ UartInit /\ CameraInit
    /\ [][UpdatedPwm!PwmNext /\ UNCHANGED <<scenario, gpio, ports>>]_all

(* The GPIO driver never blocks its own request for the interrupt, and an  *)
(* enabled interrupt goes on calling back.                                 *)
KeepsDelivering == scenario = "delivery" => []IrqInitNeverBusy /\ GoesOnCalling
===============================================================================
